---- MODULE Spec2Model ----
(***************************************************************************)
(* A model of the workload simulation and monitoring engine of             *)
(* sqlserver-framework: WorkloadExecutor (core/workload_executor.py),      *)
(* SystemResourceMonitor (core/resource_monitor.py), the execute_query     *)
(* primitive of SQLServerAdapter (core/adapters.py), the JSONL sink        *)
(* MetricsCollector (core/metrics_collector.py) and the phases of          *)
(* run_simulation (main.py).                                               *)
(*                                                                         *)
(* Workload time is counted in ticks of a quarter of a second, so that the *)
(* jitter sleep of random.uniform(0.05, 0.5) lasts one or two ticks.  The  *)
(* asyncio event loop runs a ready task before time advances, and a timer  *)
(* fires when it is due; an execute_query call stays in flight for a       *)
(* bounded, freely chosen time.                                            *)
(* The sampler's time is counted in seconds (every constant of             *)
(* resource_monitor.py is a whole number of seconds).                      *)
(* Parameter resolution (_generate_query_param and the loop that calls it) *)
(* is untimed: its steps are the turns of the loop and the awaits.         *)
(* The sink is untimed as well; the wall clock that stamps the records of  *)
(* _collect_one_dbms_metric is a counter that may advance between rows.    *)
(***************************************************************************)
EXTENDS Integers, Sequences, FiniteSets, TLC

\* ------------------------------------------------------------------ bounds

\* Parameter resolution: most generators in a query, largest primary-key
\* value, most sampled values a fetch returns, and most iterations a task
\* makes.
MaxGens == 2
MaxId == 2
MaxSample == 2
MaxIterations == 2

\* Largest workload duration_seconds and global_duration_seconds tried.
MaxDurationS == 1
MaxGlobalS == 2
\* Longest time (ticks) an execute_query call stays in flight.
MaxQueryTicks == 2
\* Most rows a result list holds.
MaxRows == 1

\* Sampler: largest monitoring_interval_seconds and frequency_seconds
\* tried, how long the sampler is watched (seconds), and how many
\* start_monitoring / stop_monitoring calls are made.
MaxInterval == 2
MaxFrequency == 2
MaxWatch == 11
MaxCalls == 3

\* Weighted selection: most queries in a workload, largest weight, and most
\* picks a task makes.
MaxQueries == 2
MaxWeight == 2
MaxPicks == 2

\* connect: most retries asked for and longest delay, in seconds.
MaxRetries == 3
MaxDelay == 2

\* Sink: most lines a log file holds.
MaxLines == 2

\* ------------------------------------------------------- program constants

\* random.uniform(0.05, 0.5): the jitter sleep, in quarter-second ticks.
JitterLo == 1
JitterHi == 2
\* timeout = global_duration_seconds + 5
GraceSeconds == 5
\* self._monitor_thread.join(timeout=10)
JoinTimeout == 10
\* sample_size or 100; start_days_ago / end_days_ago when None.
DefaultSampleSize == 100
DefaultStartDays == 30
DefaultEndDays == 0

TicksPerSecond == 2 * JitterHi
MsPerTick == 1000 \div TicksPerSecond

WorkloadNames == <<"oltp", "olap">>
\* Most tasks one run spawns (the sum of concurrency over the enabled
\* workloads).
MaxTasks == Len(WorkloadNames)

\* ------------------------------------------------------------------- state

VARIABLES
    now,              \* workload clock (time.time / perf_counter), in ticks
    pool,             \* SQLServerAdapter.pool is not None
    workloads_config, \* WorkloadExecutor.workloads_config
    global_duration,  \* global_duration_seconds of the run
    orch,             \* where run_all_workloads is
    stop_event,       \* global_stop_event.is_set()
    tasks,            \* the tasks run_all_workloads created
    emitted,          \* the QueryExecutionMetric the last step handed to
                      \* log_query_execution (NoMetric when it handed none)
    ghost             \* history: when the tasks were spawned, the stop set

wvars == <<now, pool, workloads_config, global_duration, orch, stop_event,
           tasks, emitted, ghost>>

VARIABLES
    clock,                \* the sampler's time.time(), in seconds
    monitoring_config,    \* SystemResourceMonitor.monitoring_config
    m_stop_event,         \* SystemResourceMonitor._stop_event.is_set()
    monitor_thread,       \* _monitor_thread: 0 for None, else a thread
    threads,              \* every sampling thread ever started
    dbms_metric_last_run, \* _dbms_metric_last_run
    caller,               \* where the caller of start/stop_monitoring is
    calls,                \* history: the calls made and the last one's result
    sampled               \* what the last step did with the host sample

mvars == <<clock, monitoring_config, m_stop_event, monitor_thread, threads,
           dbms_metric_last_run, caller, calls, sampled>>

VARIABLES
    param_generators,     \* query_def.param_generators of the query run
    tables_metadata,      \* schema_manager.tables_metadata
    param_cache,          \* WorkloadExecutor._param_cache
    resolvers,            \* the tasks inside _execute_single_query_instance
    fetch_calls,          \* history: get_column_sample calls per cache key
    executed              \* what the last step handed to execute_query

pvars == <<param_generators, tables_metadata, param_cache, resolvers,
           fetch_calls, executed>>

VARIABLES
    query_log,          \* query_executions.jsonl (query_log_path)
    system_log,         \* system_metrics.jsonl (system_log_path)
    dbms_log,           \* dbms_metrics.jsonl (dbms_log_path)
    recommendation_log, \* recommendations.txt (recommendation_log_path)
    collected,          \* what the last get_collected_dbms_metrics call
                        \* returned (NoRead when the last step was no read)
    wall,               \* datetime.now(), for _collect_one_dbms_metric
    collector           \* where a running _collect_one_dbms_metric is

svars == <<query_log, system_log, dbms_log, recommendation_log, collected,
           wall, collector>>

VARIABLES
    run_simulation      \* the await run_simulation is at ("none": not called)

ovars == <<run_simulation>>

VARIABLES
    selection,          \* a task's queries, weighted_queries and query_to_run
    connection          \* where a call of SQLServerAdapter.connect is

xvars == <<selection, connection>>

vars == <<wvars, mvars, pvars, svars, ovars, xvars>>

Min(a, b) == IF a <= b THEN a ELSE b

\* Python's None.
None == [kind |-> "none", n |-> 0]
\* No record handed to the sink.
NoMetric ==
    [duration_ms |-> 0, rows_affected_or_fetched |-> -1, success |-> FALSE,
     raw |-> [kind |-> "nothing", n |-> 0]]

\* A weight is an int, or a value of another type the YAML gave
\* (config_loader passes data.get('weight', 1) on unchecked).
WeightValues == {[int |-> TRUE, v |-> 0], [int |-> TRUE, v |-> 1],
                 [int |-> FALSE, v |-> 0]}

\* duration_seconds is 0 or MaxDurationS: a loop that never starts and the
\* longest one.
WorkloadConfig ==
    [enabled : BOOLEAN,
     duration_seconds : {0, MaxDurationS},
     concurrency : 1..MaxTasks,
     weight : WeightValues]

\* A disabled workload is never read beyond its enabled flag: one stands
\* for all of them.
DisabledWorkload ==
    [enabled |-> FALSE, duration_seconds |-> 0, concurrency |-> 1,
     weight |-> [int |-> TRUE, v |-> 1]]

RECURSIVE SumConcurrency(_)
SumConcurrency(cfgs) ==
    IF cfgs = << >> THEN 0
    ELSE (IF Head(cfgs).enabled THEN Head(cfgs).concurrency ELSE 0)
         + SumConcurrency(Tail(cfgs))

\* ------------------------------------------------ SQLServerAdapter (adapter)

\* What execute_query(..., fetch_results=True) can give its caller: raises
\* ConnectionError when the pool is None; otherwise the row list, or None
\* when aioodbc.Error was caught.
\* The row list is empty or holds MaxRows rows: the two extremes stand for
\* every length.
Raised == [kind |-> "raise", n |-> 0]
\* Faulty variant: the call is made with fetch_results=False and gives
\* cur.rowcount (lines 135-138).
ExecuteQueryRowcount ==
    IF ~pool THEN {Raised}
    ELSE {None} \cup {[kind |-> "int", n |-> k] : k \in {0, MaxRows}}
ExecuteQueryResults ==
    IF ~pool THEN {Raised}
    ELSE {None} \cup {[kind |-> "list", n |-> k] : k \in {0, MaxRows}}

\* ----------------------------------------------------------- WorkloadExecutor

\* The shapes lines 84-87 tell apart in what a DatabaseAdapter's
\* execute_query returns: a list of rows, an int (the rows affected) or None.
ResultShapes ==
    {None} \cup {[kind |-> k, n |-> n] : k \in {"list", "int"}, n \in 0..MaxRows}

\* Faulty variant: only a list is counted, an int is recorded as None.
RowsOfListOnly(raw) == IF raw.kind = "list" THEN raw.n ELSE -1

\* rows_affected_or_fetched: len of a list, the int itself, else None (-1).
RowsAffectedOrFetched(raw) ==
    IF raw.kind = "list" THEN raw.n
    ELSE IF raw.kind = "int" THEN raw.n
    ELSE -1

\* Faulty variant: success = bool(raw_results), which takes an empty row list for a
\* failure.
SuccessTruthy(raw) == raw.kind = "list" /\ raw.n > 0

\* success = raw_results is not None
Success(raw) == raw # None

\* duration_ms = (time.perf_counter() - start_time) * 1000
DurationMs(start_time, end_time) == (end_time - start_time) * MsPerTick

\* The QueryExecutionMetric of one execution; raw is kept beside it so that
\* the record can be compared with what execute_query returned.
QueryExecutionMetric(t, raw, start_time, end_time) ==
    [duration_ms |-> DurationMs(start_time, end_time),
     rows_affected_or_fetched |-> RowsAffectedOrFetched(raw),
     success |-> Success(raw),
     raw |-> raw]

\* weighted_queries: [q_def] * q_def.weight raises TypeError for a weight
\* that is no int and gives the empty list for a weight <= 0.
WeightedQueriesLen(cfg) == IF cfg.weight.v > 0 THEN cfg.weight.v ELSE 0

Cfg(t) == workloads_config[tasks[t].wl]
DurationTicks(t) == Cfg(t).duration_seconds * TicksPerSecond

\* Faulty variant: the loop tests the duration only.
LoopConditionIgnoresStop(t) ==
    (now - tasks[t].task_start_time) < workloads_config[tasks[t].wl].duration_seconds * TicksPerSecond

\* Faulty variant: the loop tests elapsed <= duration.
LoopConditionInclusive(t) ==
    ~stop_event /\ (now - tasks[t].task_start_time) <= workloads_config[tasks[t].wl].duration_seconds * TicksPerSecond

\* while not stop_event.is_set() and (time.time() - task_start_time) < duration
LoopCondition(t) ==
    ~stop_event /\ (now - tasks[t].task_start_time) < DurationTicks(t)

\* Faulty variant: no except clause, the exception ends the task.
CatchExceptionPropagates(task, j) ==
    [task EXCEPT !.pc = "failed", !.caught = Min(@ + 1, 2), !.end_time = now]

\* except Exception as e: logger.error(...), then the jitter sleep of j.
CatchException(task, j) ==
    [task EXCEPT !.pc = "sleep", !.caught = Min(@ + 1, 2), !.last_q = 0,
                 !.wake = now + j]

Finished(t) == tasks[t].pc \in {"done", "failed"}

NewTask(w) ==
    [wl |-> w, pc |-> "created", task_start_time |-> 0, start_time |-> 0,
     wake |-> 0, ran |-> FALSE, caught |-> 0, last_q |-> 0,
     end_time |-> 0, exit_stop |-> FALSE]

\* Faulty variant: the enabled flag is not looked at.
RECURSIVE SpawnTasksOfAll(_, _)
SpawnTasksOfAll(cfgs, w) ==
    IF w > Len(cfgs) THEN << >>
    ELSE [i \in 1..cfgs[w].concurrency |-> NewTask(w)]
         \o SpawnTasksOfAll(cfgs, w + 1)

\* for workload_cfg in active_workloads: for _ in range(concurrency): create_task
RECURSIVE SpawnTasks(_, _)
SpawnTasks(cfgs, w) ==
    IF w > Len(cfgs) THEN << >>
    ELSE (IF cfgs[w].enabled
          THEN [i \in 1..cfgs[w].concurrency |-> NewTask(w)]
          ELSE << >>) \o SpawnTasks(cfgs, w + 1)

\* Faulty variant: gather without return_exceptions re-raises a task's exception.
GatherOutcomeRaises(ts) ==
    IF \E t \in DOMAIN ts : ts[t].pc = "failed" THEN "raised" ELSE "returned"

\* asyncio.gather(*tasks, return_exceptions=True): the exceptions of the
\* tasks are collected in the result list and run_all_workloads returns.
GatherOutcome(ts) == "returned"

\* Faulty variant: the gather is not awaited.
GatherReadyNotAwaited(ts) == TRUE

\* gather completes when every awaited task is done.
GatherReady(ts) == \A t \in DOMAIN ts : ts[t].pc \in {"done", "failed"}

\* asyncio.wait_for(asyncio.sleep(global_duration_seconds),
\*                  timeout=global_duration_seconds + 5)
\* ends when the sleep is over or when the timeout expires, whichever comes
\* first; it raises TimeoutError in the second case.
SleepTicks == global_duration * TicksPerSecond
TimeoutTicks == (global_duration + GraceSeconds) * TicksPerSecond
\* Faulty variant: timeout = global_duration_seconds - 5.
WaitTicksTimeoutFirst ==
    Min(SleepTicks, (global_duration - GraceSeconds) * TicksPerSecond)
WaitTicks == Min(SleepTicks, TimeoutTicks)
WaitResult == IF SleepTicks <= TimeoutTicks THEN "slept" ELSE "timeout"
\* Faulty variant: the wait also ends when every task has finished.
WaitOverWhenTasksDone ==
    \/ now >= ghost.spawned_at + WaitTicks
    \/ \A t \in DOMAIN tasks : tasks[t].pc \in {"done", "failed"}
WaitOver == now >= ghost.spawned_at + WaitTicks

WInit ==
    /\ now = 0
    /\ pool \in BOOLEAN
    /\ workloads_config \in [1..Len(WorkloadNames) -> WorkloadConfig]
    /\ SumConcurrency(workloads_config) <= MaxTasks
    /\ \A w \in DOMAIN workloads_config :
          ~workloads_config[w].enabled => workloads_config[w] = DisabledWorkload
    /\ global_duration \in 0..MaxGlobalS
    /\ orch = "idle"
    /\ stop_event = FALSE
    /\ tasks = << >>
    /\ emitted = NoMetric
    /\ ghost = [spawned |-> FALSE, spawned_at |-> 0, stop_set_at |-> 0,
                wait_result |-> "none", returned_at |-> 0]

\* run_all_workloads up to its first await (lines 131-149).
RunAllWorkloads ==
    /\ orch = "idle"
    /\ IF \A w \in DOMAIN workloads_config : ~workloads_config[w].enabled
       THEN /\ orch' = "returned"
            /\ UNCHANGED <<tasks, ghost>>
       ELSE /\ orch' = "waiting"
            /\ tasks' = SpawnTasks(workloads_config, 1)
            /\ ghost' = [ghost EXCEPT !.spawned = TRUE, !.spawned_at = now]
    /\ emitted' = NoMetric
    /\ UNCHANGED <<mvars, pvars, svars, ovars, xvars, now, pool, workloads_config, global_duration, stop_event>>

\* _run_workload_task from its first step to the loop (lines 109-119).
TaskStart(t) ==
    /\ orch \in {"waiting", "gathering"}
    /\ tasks[t].pc = "created"
    /\ tasks' = [tasks EXCEPT ![t] =
          IF ~Cfg(t).weight.int
          THEN [@ EXCEPT !.pc = "failed", !.end_time = now]
          ELSE IF WeightedQueriesLen(Cfg(t)) = 0
          THEN [@ EXCEPT !.pc = "done", !.end_time = now,
                         !.exit_stop = stop_event]
          ELSE [@ EXCEPT !.pc = "loop", !.task_start_time = now]]
    /\ emitted' = NoMetric
    /\ UNCHANGED <<mvars, pvars, svars, ovars, xvars, now, pool, workloads_config, global_duration, orch,
                   stop_event, ghost>>

\* The while test, and the iteration it starts up to the first await of
\* _execute_single_query_instance (lines 120-123, 70-80).  With no pool
\* execute_query raises at once: the except clause logs it and the task
\* goes to its jitter sleep.
TaskLoop(t) ==
    /\ tasks[t].pc = "loop"
    /\ IF LoopCondition(t)
       THEN IF Raised \in ExecuteQueryResults
            THEN \E j \in JitterLo..JitterHi :
                    tasks' = [tasks EXCEPT ![t] =
                        CatchException([@ EXCEPT !.ran = TRUE], j)]
            ELSE tasks' = [tasks EXCEPT ![t] =
                    [@ EXCEPT !.pc = "query", !.ran = TRUE,
                              !.start_time = now]]
       ELSE tasks' = [tasks EXCEPT ![t] =
                [@ EXCEPT !.pc = "done", !.end_time = now,
                          !.exit_stop = stop_event]]
    /\ emitted' = NoMetric
    /\ UNCHANGED <<mvars, pvars, svars, ovars, xvars, now, pool, workloads_config, global_duration, orch,
                   stop_event, ghost>>

\* execute_query returns: the metric is built and logged, then the jitter
\* sleep starts (lines 80-106, 127).
TaskQueryReturn(t) ==
    /\ tasks[t].pc = "query"
    /\ \E raw \in ExecuteQueryResults \ {Raised}, j \in JitterLo..JitterHi :
          /\ emitted' = QueryExecutionMetric(t, raw, tasks[t].start_time, now)
          /\ tasks' = [tasks EXCEPT ![t] =
                [@ EXCEPT !.pc = "sleep",
                          !.last_q = now - tasks[t].start_time,
                          !.start_time = 0, !.wake = now + j]]
    /\ UNCHANGED <<mvars, pvars, svars, ovars, xvars, now, pool, workloads_config, global_duration, orch,
                   stop_event, ghost>>

\* asyncio.sleep(random.uniform(0.05, 0.5)) is over (line 127).
TaskWake(t) ==
    /\ tasks[t].pc = "sleep"
    /\ now >= tasks[t].wake
    /\ tasks' = [tasks EXCEPT ![t] = [@ EXCEPT !.pc = "loop", !.wake = 0]]
    /\ emitted' = NoMetric
    /\ UNCHANGED <<mvars, pvars, svars, ovars, xvars, now, pool, workloads_config, global_duration, orch,
                   stop_event, ghost>>

\* Faulty variant: set() leaves the event as it was created.
EventLeftUnset == FALSE

\* global_stop_event.set() (line 153): is_set() is true from then on.
EventSet == TRUE

\* The wait of lines 148-154 ends, by the sleep or by the timeout, and the
\* finally clause sets the stop event.
SetStop(how) ==
    /\ stop_event' = EventSet
    /\ orch' = "gathering"
    /\ ghost' = [ghost EXCEPT !.stop_set_at = now, !.wait_result = how]
    /\ emitted' = NoMetric
    /\ UNCHANGED <<mvars, pvars, svars, ovars, xvars, now, pool, workloads_config, global_duration, tasks>>

OrchWaitDone ==
    /\ orch = "waiting"
    /\ WaitOver
    /\ SetStop(WaitResult)

\* await asyncio.gather(*tasks, return_exceptions=True) is over (line 155).
OrchGatherDone ==
    /\ orch = "gathering"
    /\ GatherReady(tasks)
    /\ orch' = GatherOutcome(tasks)
    /\ ghost' = [ghost EXCEPT !.returned_at = now]
    /\ emitted' = NoMetric
    /\ UNCHANGED <<mvars, pvars, svars, ovars, xvars, now, pool, workloads_config, global_duration, stop_event,
                   tasks>>

\* Time passes: no task is ready to run, no jitter sleep is due, no query
\* has been in flight for MaxQueryTicks, the wait_for timeout has not
\* expired and a gather that can complete has completed.
Tick ==
    /\ orch # "idle"
    /\ orch = "waiting" \/ \E t \in DOMAIN tasks : ~Finished(t)
    /\ orch = "waiting" => ~WaitOver
    /\ orch = "gathering" => ~GatherReady(tasks)
    /\ \A t \in DOMAIN tasks :
          /\ tasks[t].pc \notin {"created", "loop"}
          /\ tasks[t].pc = "sleep" => now < tasks[t].wake
          /\ tasks[t].pc = "query" => now - tasks[t].start_time < MaxQueryTicks
    /\ now' = now + 1
    /\ emitted' = NoMetric
    /\ UNCHANGED <<mvars, pvars, svars, ovars, xvars, pool, workloads_config, global_duration, orch, stop_event,
                   tasks, ghost>>

WNext ==
    \/ RunAllWorkloads
    \/ \E t \in DOMAIN tasks : TaskStart(t)
    \/ \E t \in DOMAIN tasks : TaskLoop(t)
    \/ \E t \in DOMAIN tasks : TaskQueryReturn(t)
    \/ \E t \in DOMAIN tasks : TaskWake(t)
    \/ OrchWaitDone
    \/ OrchGatherDone
    \/ Tick

\* ----------------------------------------------------- SystemResourceMonitor

\* The database metrics of the configuration, each with its frequency.
MetricNames == {"dmv"}

\* The host metrics a configuration may name.
OsMetricNames == {"cpu_percent", "memory_percent"}

\* The configurations tried: any host metrics, the shortest and the longest
\* interval, and for each metric the shortest or the longest frequency.
MonitoringConfig ==
    [os_metrics : SUBSET OsMetricNames,
     monitoring_interval_seconds : {1, MaxInterval},
     frequency_seconds : [MetricNames -> {1, MaxFrequency}]]

\* time.time() is far from 0, the value last_run starts from.
InitialClock == MaxFrequency

\* A sampling thread: where it is, when its wait ends, its local now and
\* the metrics it found due, and the coroutines queued on its event loop.
NewThread ==
    [pc |-> "start", wait_until |-> 0, now |-> 0, due |-> {},
     pending |-> [m \in MetricNames |-> 0]]

\* No step of the last kind: nothing was done about a host sample.
NoSample == [kind |-> "quiet", cpu_percent |-> "null", memory_percent |-> "null"]

\* Thread.is_alive()
Alive(th) == threads[th].pc \notin {"exited", "crashed"}

\* Faulty variant: start_monitoring without its guard.
RunningNeverSeen == FALSE

\* self._monitor_thread and self._monitor_thread.is_alive()
Running == monitor_thread # 0 /\ Alive(monitor_thread)

\* Faulty variant: join() without a timeout.
JoinOverNoTimeout == ~Alive(monitor_thread)

\* self._monitor_thread.join(timeout=10) returns: the thread has ended or
\* ten seconds have passed.
JoinOver ==
    ~Alive(monitor_thread) \/ clock - calls.join_start >= JoinTimeout

MInit ==
    /\ clock = InitialClock
    /\ monitoring_config \in MonitoringConfig
    /\ m_stop_event = FALSE
    /\ monitor_thread = 0
    /\ threads = << >>
    /\ dbms_metric_last_run = << >>
    /\ caller = "idle"
    /\ calls = [n |-> 0, last |-> "none", join_start |-> 0, took |-> 0,
                abandoned |-> FALSE]
    /\ sampled = NoSample

\* start_monitoring (lines 105-115).
StartMonitoring ==
    /\ caller = "idle"
    /\ calls.n < MaxCalls
    /\ IF Running
       THEN /\ calls' = [calls EXCEPT !.n = @ + 1, !.last = "start_noop"]
            /\ UNCHANGED <<m_stop_event, dbms_metric_last_run, threads,
                           monitor_thread>>
       ELSE /\ m_stop_event' = FALSE
            /\ dbms_metric_last_run' = [m \in MetricNames |-> 0]
            /\ threads' = Append(threads, NewThread)
            /\ monitor_thread' = Len(threads) + 1
            /\ calls' = [calls EXCEPT !.n = @ + 1, !.last = "start"]
    /\ sampled' = NoSample
    /\ UNCHANGED <<wvars, pvars, svars, ovars, xvars, clock, monitoring_config, caller>>

\* stop_monitoring up to the join (lines 118-122), or its else branch.
StopMonitoring ==
    /\ caller = "idle"
    /\ calls.n < MaxCalls
    /\ IF Running
       THEN /\ m_stop_event' = TRUE
            /\ caller' = "joining"
            /\ calls' = [calls EXCEPT !.n = @ + 1, !.last = "stop_joining",
                                      !.join_start = clock]
       ELSE /\ calls' = [calls EXCEPT !.n = @ + 1, !.last = "stop_noop",
                                      !.took = 0, !.abandoned = FALSE]
            /\ UNCHANGED <<m_stop_event, caller>>
    /\ sampled' = NoSample
    /\ UNCHANGED <<wvars, pvars, svars, ovars, xvars, clock, monitoring_config, monitor_thread, threads,
                   dbms_metric_last_run>>

\* The join returns and stop_monitoring drops the handle (lines 122-127).
StopJoinReturn ==
    /\ caller = "joining"
    /\ JoinOver
    /\ monitor_thread' = 0
    /\ caller' = "idle"
    /\ calls' = [calls EXCEPT !.last = "stop",
                              !.took = clock - calls.join_start,
                              !.abandoned = Alive(monitor_thread)]
    /\ sampled' = NoSample
    /\ UNCHANGED <<wvars, pvars, svars, ovars, xvars, clock, monitoring_config, m_stop_event, threads,
                   dbms_metric_last_run>>

\* _monitoring_loop_sync before its loop (lines 72-79): the priming call
\* psutil.cpu_percent is in no try block, so a psutil error ends the thread.
ThreadPrime(th) ==
    /\ threads[th].pc = "start"
    /\ \E ok \in (IF "cpu_percent" \in monitoring_config.os_metrics
                  THEN BOOLEAN ELSE {TRUE}) :
          threads' = [threads EXCEPT ![th].pc = IF ok THEN "test" ELSE "crashed"]
    /\ sampled' = NoSample
    /\ UNCHANGED <<wvars, pvars, svars, ovars, xvars, clock, monitoring_config, m_stop_event,
                   monitor_thread, dbms_metric_last_run, caller, calls>>

\* while not self._stop_event.is_set() (line 81, and 101-102 on exit).
ThreadTest(th) ==
    /\ threads[th].pc = "test"
    /\ threads' = [threads EXCEPT ![th].pc =
                      IF m_stop_event THEN "exited" ELSE "body"]
    /\ sampled' = NoSample
    /\ UNCHANGED <<wvars, pvars, svars, ovars, xvars, clock, monitoring_config, m_stop_event,
                   monitor_thread, dbms_metric_last_run, caller, calls>>

\* ResourceMetric(timestamp=...) with the configured fields filled in.
ResourceMetric(os_metrics) ==
    [kind |-> "metric",
     cpu_percent |-> IF "cpu_percent" \in os_metrics THEN "value" ELSE "null",
     memory_percent |->
         IF "memory_percent" \in os_metrics THEN "value" ELSE "null"]

\* _collect_os_metrics_sync (lines 36-52): None for an empty os_metrics
\* list, the record when psutil answers, None when psutil raises.
CollectOsMetrics(ok) ==
    IF monitoring_config.os_metrics = {}
    THEN [NoSample EXCEPT !.kind = "skipped"]
    ELSE IF ok THEN ResourceMetric(monitoring_config.os_metrics)
         ELSE [NoSample EXCEPT !.kind = "failed"]

\* Faulty variant: an exception of the host read leaves the loop.
AfterHostReadPropagates(thread, os_data) ==
    IF os_data.kind = "failed"
    THEN [thread EXCEPT !.pc = "crashed"]
    ELSE [thread EXCEPT !.pc = "check", !.now = clock]

\* After the host sample, whatever it gave: now = time.time() (line 88).
AfterHostRead(thread, os_data) ==
    [thread EXCEPT !.pc = "check", !.now = clock]

\* The first part of a tick (lines 82-88): the host sample is taken and
\* logged if there is one, and the time of the tick is read.
ThreadBody(th) ==
    /\ threads[th].pc = "body"
    /\ \E ok \in BOOLEAN :
          /\ sampled' = CollectOsMetrics(ok)
          /\ threads' = [threads EXCEPT ![th] = AfterHostRead(@, sampled')]
    /\ UNCHANGED <<wvars, pvars, svars, ovars, xvars, clock, monitoring_config, m_stop_event,
                   monitor_thread, dbms_metric_last_run, caller, calls>>

\* (now - last_run) >= metric_cfg.frequency_seconds (lines 90-91).
Due(now_, m) ==
    now_ - dbms_metric_last_run[m] >= monitoring_config.frequency_seconds[m]

\* The thread once its tick is over: self._stop_event.wait(interval).
ToWait(thread) ==
    [thread EXCEPT !.pc = "wait", !.now = 0, !.due = {},
        !.wait_until = clock + monitoring_config.monitoring_interval_seconds]

\* The loop reads last_run for its metrics and compares (lines 89-91).
\* Another sampling thread may run between this and the dispatch.
ThreadCheck(th) ==
    /\ threads[th].pc = "check"
    /\ LET due == {m \in MetricNames : Due(threads[th].now, m)}
       IN  threads' = [threads EXCEPT ![th] =
              IF due = {} THEN ToWait(@)
              ELSE [@ EXCEPT !.pc = "dispatch", !.due = due]]
    /\ sampled' = NoSample
    /\ UNCHANGED <<wvars, pvars, svars, ovars, xvars, clock, monitoring_config, m_stop_event,
                   monitor_thread, dbms_metric_last_run, caller, calls>>

\* Faulty variant: a metric that has a coroutine queued is not queued again.
DispatchedOnce(thread) ==
    [m \in MetricNames |->
        IF m \in thread.due /\ thread.pending[m] = 0 THEN 1
        ELSE thread.pending[m]]

\* The coroutines queued on the thread's event loop, per metric (counted up
\* to two), after one more for every due metric; and the metrics that have
\* one queued.
Dispatched(thread) ==
    [m \in MetricNames |->
        IF m \in thread.due THEN Min(thread.pending[m] + 1, 2)
        ELSE thread.pending[m]]
Queued(thread) == {m \in MetricNames : thread.pending[m] > 0}

\* Faulty variant: the loop waits for the dispatched coroutine to finish.
AfterDispatchAwaits(thread) ==
    [thread EXCEPT !.pc = "await", !.pending = Dispatched(thread)]

\* run_coroutine_threadsafe queues the coroutine on the thread's event
\* loop and returns (lines 93-96); the loop goes on to its wait.
AfterDispatch(thread) ==
    [ToWait(thread) EXCEPT !.pending = Dispatched(thread)]

\* The due metrics are dispatched and their last_run set (lines 92-97).
\* The event loop of line 78 is never run (no run_forever or
\* run_until_complete), so a queued coroutine stays queued.
ThreadDispatch(th) ==
    /\ threads[th].pc = "dispatch"
    /\ dbms_metric_last_run' =
          [m \in MetricNames |->
              IF m \in threads[th].due THEN threads[th].now
              ELSE dbms_metric_last_run[m]]
    /\ threads' = [threads EXCEPT ![th] = AfterDispatch(@)]
    /\ sampled' = NoSample
    /\ UNCHANGED <<wvars, pvars, svars, ovars, xvars, clock, monitoring_config, m_stop_event,
                   monitor_thread, caller, calls>>

\* self._stop_event.wait(interval) returns: the event is set or the
\* interval is over.
ThreadWaitDone(th) ==
    /\ threads[th].pc = "wait"
    /\ m_stop_event \/ clock >= threads[th].wait_until
    /\ threads' = [threads EXCEPT ![th].pc = "test", ![th].wait_until = 0]
    /\ sampled' = NoSample
    /\ UNCHANGED <<wvars, pvars, svars, ovars, xvars, clock, monitoring_config, m_stop_event,
                   monitor_thread, dbms_metric_last_run, caller, calls>>

\* A second passes.  A thread in the host read of a tick may be held there
\* (a blocked read or write); every other step is taken as soon as it can.
MTick ==
    /\ clock < InitialClock + MaxWatch
    /\ threads # << >>
    /\ \A th \in DOMAIN threads :
          /\ threads[th].pc \notin {"start", "test", "check", "dispatch"}
          /\ threads[th].pc = "wait" =>
                ~m_stop_event /\ clock < threads[th].wait_until
    /\ caller = "joining" => ~JoinOver
    /\ clock' = clock + 1
    /\ sampled' = NoSample
    /\ UNCHANGED <<wvars, pvars, svars, ovars, xvars, monitoring_config, m_stop_event, monitor_thread,
                   threads, dbms_metric_last_run, caller, calls>>

MNext ==
    \/ StartMonitoring
    \/ StopMonitoring
    \/ StopJoinReturn
    \/ \E th \in DOMAIN threads : ThreadPrime(th)
    \/ \E th \in DOMAIN threads : ThreadTest(th)
    \/ \E th \in DOMAIN threads : ThreadBody(th)
    \/ \E th \in DOMAIN threads : ThreadCheck(th)
    \/ \E th \in DOMAIN threads : ThreadDispatch(th)
    \/ \E th \in DOMAIN threads : ThreadWaitDone(th)
    \/ MTick

\* ------------------------------------------------- SQLServerAdapter.connect

\* No connect call was made.  attempt is the loop variable; attempts,
\* sleeps, waited and leaked are history: the create_pool calls made, the
\* sleeps begun, the seconds slept and the pools replaced without a close;
\* ok tells whether the last attempt succeeded.
NoConnection ==
    [pc |-> "none", retries |-> 0, delay |-> 0, attempt |-> 0,
     attempts |-> 0, sleeps |-> 0, waited |-> 0, leaked |-> 0, ok |-> FALSE]

\* connect(retries, delay) is called on a new adapter (pool is None).
ConnectCalls ==
    {[NoConnection EXCEPT !.pc = "called", !.retries = r, !.delay = d] :
        r \in 0..MaxRetries, d \in 1..MaxDelay}

\* for attempt in range(retries) (line 95): the first turn, or no turn at
\* all and the function returns None.
ConnectBegin ==
    /\ connection.pc = "called"
    /\ connection' = [connection EXCEPT
          !.pc = IF connection.retries > 0 THEN "attempt" ELSE "returned"]
    /\ UNCHANGED <<wvars, mvars, pvars, svars, ovars, selection>>

\* Faulty variant: one turn more before the error is raised.
LastAttemptOneMore(c) == c.attempt >= c.retries

\* not (attempt < retries - 1) (line 108).
LastAttempt(c) == ~(c.attempt < c.retries - 1)

\* One turn of the loop (lines 96-112).  create_pool raises aioodbc.Error
\* and self.pool keeps what it held; or the pool is created and assigned
\* (line 98, over a pool of an earlier turn, which is not closed) and then
\* SELECT 1 raises aioodbc.Error (99-102) or succeeds and connect returns
\* (104).  After a failure: sleep, or raise on the last turn (108-112).
ConnectAttempt ==
    /\ connection.pc = "attempt"
    /\ \E created \in BOOLEAN, valid \in BOOLEAN :
          /\ valid => created
          /\ pool' = (IF created THEN TRUE ELSE pool)
          /\ connection' = [connection EXCEPT
                !.attempts = @ + 1,
                !.leaked = IF created /\ pool THEN @ + 1 ELSE @,
                !.ok = valid,
                !.pc = IF valid THEN "returned"
                       ELSE IF LastAttempt(connection) THEN "raised"
                       ELSE "sleep"]
    /\ UNCHANGED <<mvars, pvars, svars, ovars, selection, now,
                   workloads_config, global_duration, orch, stop_event,
                   tasks, emitted, ghost>>

\* await asyncio.sleep(delay) returns (line 110) and the loop goes on.
ConnectSleepDone ==
    /\ connection.pc = "sleep"
    /\ connection' = [connection EXCEPT
          !.pc = "attempt", !.attempt = @ + 1, !.sleeps = @ + 1,
          !.waited = @ + connection.delay]
    /\ UNCHANGED <<wvars, mvars, pvars, svars, ovars, selection>>

\* disconnect (lines 114-119) after connect returned or raised: a pool
\* held is closed and self.pool set to None.
Disconnect ==
    /\ connection.pc \in {"returned", "raised"}
    /\ pool' = FALSE
    /\ connection' = [connection EXCEPT !.pc = "closed"]
    /\ UNCHANGED <<mvars, pvars, svars, ovars, selection, now,
                   workloads_config, global_duration, orch, stop_event,
                   tasks, emitted, ghost>>

ConnectNext == ConnectBegin \/ ConnectAttempt \/ ConnectSleepDone \/ Disconnect

\* ------------------------------------------------------ weighted selection

\* The queries of a workload, by their weights: an int (config_loader takes
\* any, also 0 or a negative one) or a value of another type.
QueryWeights ==
    {[int |-> TRUE, v |-> v] : v \in -1..MaxWeight} \cup {[int |-> FALSE, v |-> 0]}
QueryLists == UNION {[1..n -> QueryWeights] : n \in 0..MaxQueries}

\* [q_def] * q_def.weight: the query (its index) weight times, the empty
\* list for a weight of 0 or less.
RECURSIVE Times(_, _)
Times(q, weight) == IF weight <= 0 THEN << >> ELSE <<q>> \o Times(q, weight - 1)

\* The loop of lines 111-113 from query q on: TypeError at the first
\* weight that is no int.
RECURSIVE WeightedQueries(_, _)
WeightedQueries(queries, q) ==
    IF q > Len(queries) THEN [raised |-> FALSE, pool |-> << >>]
    ELSE IF ~queries[q].int THEN [raised |-> TRUE, pool |-> << >>]
    ELSE LET rest == WeightedQueries(queries, q + 1)
         IN  [rest EXCEPT !.pool = Times(q, queries[q].v) \o @]

\* No task is selecting; query_to_run is 0 before the first pick.
NoSelection ==
    [pc |-> "none", queries |-> << >>, weighted_queries |-> << >>,
     query_to_run |-> 0, picks |-> 0]

\* _run_workload_task up to the loop (lines 109-119): the pool is built;
\* the task fails on TypeError, returns on an empty pool, or enters the
\* loop.
BuildPool ==
    /\ selection.pc = "created"
    /\ LET built == WeightedQueries(selection.queries, 1)
       IN  selection' =
              IF built.raised THEN [selection EXCEPT !.pc = "failed"]
              ELSE IF built.pool = << >> THEN [selection EXCEPT !.pc = "done"]
              ELSE [selection EXCEPT !.pc = "loop",
                                     !.weighted_queries = built.pool]
    /\ UNCHANGED <<wvars, mvars, pvars, svars, ovars, connection>>

\* query_to_run = random.choice(weighted_queries) (line 121), one
\* iteration of the loop.
PickQuery ==
    /\ selection.pc = "loop"
    /\ selection.picks < MaxPicks
    /\ \E j \in DOMAIN selection.weighted_queries :
          selection' = [selection EXCEPT
              !.query_to_run = selection.weighted_queries[j],
              !.picks = @ + 1]
    /\ UNCHANGED <<wvars, mvars, pvars, svars, ovars, connection>>

\* The loop ends (stop signal or duration).
PickDone ==
    /\ selection.pc = "loop"
    /\ selection' = [selection EXCEPT !.pc = "done"]
    /\ UNCHANGED <<wvars, mvars, pvars, svars, ovars, connection>>

SelNext == BuildPool \/ PickQuery \/ PickDone

\* ------------------------------------------------ parameter resolution

\* None for an Optional[int] field, "" for an Optional[str] one (both fail
\* the tests "is not None" / "not x" of the code the same way).
NoneInt == -1
NoneStr == ""

\* The integer v, or None, as the code reads an Optional[int].
IsNone(v) == v = NoneInt

\* QueryParamGeneratorConfig: the configurations tried, per type.
Gen(type, table, column, sample_size, start_days_ago, end_days_ago) ==
    [type |-> type, table |-> table, column |-> column,
     sample_size |-> sample_size, start_days_ago |-> start_days_ago,
     end_days_ago |-> end_days_ago]

RangeGenerators ==
    {Gen("random_int_from_column_range", tc[1], tc[2], NoneInt, NoneInt,
         NoneInt) :
        tc \in {<<"t", "id">>, <<"t", NoneStr>>, <<NoneStr, "id">>}}

SampleGenerators ==
    {Gen("random_from_column_sample", "t", cs[1], cs[2], NoneInt, NoneInt) :
        cs \in {<<"c", NoneInt>>, <<"c", 1>>, <<NoneStr, NoneInt>>}}

DateGenerators ==
    {Gen("date_range", NoneStr, NoneStr, NoneInt, se[1], se[2]) :
        se \in {<<NoneInt, NoneInt>>, <<7, 1>>}}

UnknownGenerators ==
    {Gen("uuid", NoneStr, NoneStr, NoneInt, NoneInt, NoneInt)}

Generators ==
    RangeGenerators \cup SampleGenerators \cup DateGenerators
        \cup UnknownGenerators

\* The sequences of at most MaxGens generators drawn from gens.
QueriesOver(gens) == UNION {[1..n -> gens] : n \in 0..MaxGens}

\* tables_metadata as refresh_tables_metadata leaves it (schema_manager.py
\* lines 190-210): no entry, an entry with both bounds None, or an entry
\* with MIN(pk) <= MAX(pk).
MetadataEntries ==
    {[present |-> FALSE, min_id |-> NoneInt, max_id |-> NoneInt],
     [present |-> TRUE, min_id |-> NoneInt, max_id |-> NoneInt]}
    \cup UNION {{[present |-> TRUE, min_id |-> lo, max_id |-> hi] :
                    hi \in lo..MaxId} : lo \in 1..MaxId}

\* The tables the generators name.
Tables == {"t"}

\* Parameter values: an integer, a sampled column value, a fixed string, a
\* formatted timestamp of now minus v days, or None.
IntValue(v) == [k |-> "int", v |-> v]
SampleValue(v) == [k |-> "sample", v |-> v]
StrValue(name) == [k |-> name, v |-> 0]
DateValue(days) == [k |-> "date", v |-> days]
NoneValue == [k |-> "none", v |-> 0]

\* What a call returns: one value, a tuple of values, or an exception.
Single(v) == [kind |-> "value", vals |-> <<v>>]
Pair(a, b) == [kind |-> "tuple", vals |-> <<a, b>>]
Raises == [kind |-> "raise", vals |-> << >>]

\* Faulty variant: tables_metadata[table] in place of .get(table).
RangeResultsKeyError(gen) ==
    IF gen.table = NoneStr \/ gen.column = NoneStr THEN {Single(IntValue(1))}
    ELSE IF ~tables_metadata[gen.table].present THEN {Raises}
    ELSE IF IsNone(tables_metadata[gen.table].min_id)
            \/ IsNone(tables_metadata[gen.table].max_id)
         THEN {Single(IntValue(1))}
    ELSE {Single(IntValue(v)) : v \in tables_metadata[gen.table].min_id
                                        .. tables_metadata[gen.table].max_id}

\* Faulty variant: random.randint(1, max_id), the lower bound ignored.
RangeResultsFromOne(gen) ==
    IF gen.table = NoneStr \/ gen.column = NoneStr THEN {Single(IntValue(1))}
    ELSE IF /\ tables_metadata[gen.table].present
            /\ ~IsNone(tables_metadata[gen.table].min_id)
            /\ ~IsNone(tables_metadata[gen.table].max_id)
         THEN {Single(IntValue(v)) : v \in 1..tables_metadata[gen.table].max_id}
    ELSE {Single(IntValue(1))}

\* _generate_query_param, random_int_from_column_range (lines 30-41): the
\* values random.randint can give, or 1 on a missing table or column, a
\* missing entry, a None bound or an empty range.
RangeResults(gen) ==
    IF gen.table = NoneStr \/ gen.column = NoneStr THEN {Single(IntValue(1))}
    ELSE LET meta == tables_metadata[gen.table]
         IN  IF meta.present /\ ~IsNone(meta.min_id) /\ ~IsNone(meta.max_id)
             THEN IF meta.min_id <= meta.max_id
                  THEN {Single(IntValue(v)) : v \in meta.min_id..meta.max_id}
                  ELSE {Single(IntValue(1))}
             ELSE {Single(IntValue(1))}

\* date_range (lines 60-65): the pair (start, end).
DateRangeResults(gen) ==
    LET start_days == IF ~IsNone(gen.start_days_ago) THEN gen.start_days_ago
                      ELSE DefaultStartDays
        end_days == IF ~IsNone(gen.end_days_ago) THEN gen.end_days_ago
                    ELSE DefaultEndDays
    IN  {Pair(DateValue(start_days), DateValue(end_days))}

\* Faulty variant: an unknown type raises.
UnknownResultsRaises(gen) == {Raises}

\* An unknown type (lines 67-68): None.
UnknownResults(gen) == {Single(NoneValue)}

\* sample_size = param_gen_config.sample_size or 100 (line 48).
SampleSize(gen) ==
    IF IsNone(gen.sample_size) \/ gen.sample_size = 0 THEN DefaultSampleSize
    ELSE gen.sample_size

\* cache_key (line 49).
CacheKey(gen) == <<gen.type, gen.table, gen.column, SampleSize(gen)>>

CacheKeys == {CacheKey(g) : g \in SampleGenerators}

\* The generator goes through the sample cache (lines 48-58).
UsesCache(gen) ==
    /\ gen.type = "random_from_column_sample"
    /\ gen.table # NoneStr /\ gen.column # NoneStr

\* Faulty variant: the cache is never consulted.
CacheHitNever(key) == FALSE

\* cache_key in self._param_cache
CacheHit(key) == param_cache[key].cached

\* random.choice(cached_sample) if cached_sample else "default_sample_value"
ChoiceResults(cached_sample) ==
    IF cached_sample = << >> THEN {Single(StrValue("default_sample_value"))}
    ELSE {Single(cached_sample[j]) : j \in DOMAIN cached_sample}

\* _generate_query_param where it does not await: every branch but the
\* cache miss.
GenerateQueryParam(gen) ==
    IF gen.type = "random_int_from_column_range" THEN RangeResults(gen)
    ELSE IF gen.type = "random_from_column_sample"
         THEN IF ~UsesCache(gen)
              THEN {Single(StrValue("default_sample_value"))}
              ELSE ChoiceResults(param_cache[CacheKey(gen)].sample)
    ELSE IF gen.type = "date_range" THEN DateRangeResults(gen)
    ELSE UnknownResults(gen)

\* get_column_sample (adapters.py lines 177-182): execute_query raises with
\* no pool; otherwise at most sample_size values, none on a failed query.
ColumnSampleResults(sample_size) ==
    IF ~pool THEN {Raises}
    ELSE {[kind |-> "value", vals |-> [j \in 1..n |-> SampleValue(j)]] :
            n \in 0..Min(sample_size, MaxSample)}

\* Faulty variant: what the fetch returned is cached as it is.
CacheEntryAsFetched(sample_values) ==
    [cached |-> TRUE, sample |-> sample_values]

\* sample_values if sample_values else ["default_if_empty"] (line 55).
CacheEntry(sample_values) ==
    [cached |-> TRUE,
     sample |-> IF sample_values # << >> THEN sample_values
                ELSE <<StrValue("default_if_empty")>>]

\* Faulty variant: a tuple is appended as one element.
FlattenAppendsTuple(params_list, ret) == Append(params_list, ret.vals[1])

\* isinstance(param_val, tuple): extend, else append (lines 73-77).
Flatten(params_list, ret) ==
    IF ret.kind = "tuple" THEN params_list \o ret.vals
    ELSE Append(params_list, ret.vals[1])

\* A task outside _execute_single_query_instance, having made iters calls.
IdleResolver(iters) ==
    [pc |-> "idle", i |-> 0, params_list |-> << >>, iters |-> iters]

\* Nothing was handed to execute_query by the last step.
NoCall == [kind |-> "quiet", params |-> << >>, logged |-> FALSE]

\* An exception leaves _execute_single_query_instance: the call is over
\* and execute_query was not reached (caught at line 124).
Abandon(task) == IdleResolver(task.iters + 1)

\* The state before the first iteration: run_all_workloads has cleared the
\* cache (line 132).
PInitWith(queries, ntasks) ==
    /\ param_generators \in queries
    /\ tables_metadata \in [Tables -> MetadataEntries]
    /\ param_cache = [key \in CacheKeys |-> [cached |-> FALSE, sample |-> << >>]]
    /\ resolvers = [t \in 1..ntasks |-> IdleResolver(0)]
    /\ fetch_calls = [key \in CacheKeys |-> 0]
    /\ executed = NoCall

\* A task calls _execute_single_query_instance (line 123).
ResolveBegin(t) ==
    /\ resolvers[t].pc = "idle"
    /\ resolvers[t].iters < MaxIterations
    /\ resolvers' = [resolvers EXCEPT ![t].pc = "gen", ![t].i = 1]
    /\ executed' = NoCall
    /\ UNCHANGED <<wvars, mvars, svars, ovars, xvars, param_generators, tables_metadata,
                   param_cache, fetch_calls>>

\* One turn of the loop over the generators (lines 72-77): the value is
\* appended, or, on a cache miss, get_column_sample is called and awaited.
ResolveParam(t) ==
    /\ resolvers[t].pc = "gen"
    /\ resolvers[t].i <= Len(param_generators)
    /\ LET gen == param_generators[resolvers[t].i]
       IN  IF UsesCache(gen) /\ ~CacheHit(CacheKey(gen))
           THEN /\ resolvers' = [resolvers EXCEPT ![t].pc = "fetching"]
                /\ fetch_calls' = [fetch_calls EXCEPT ![CacheKey(gen)] = @ + 1]
                /\ executed' = NoCall
           ELSE /\ \E ret \in GenerateQueryParam(gen) :
                      IF ret.kind = "raise"
                      THEN /\ resolvers' =
                                 [resolvers EXCEPT ![t] = Abandon(@)]
                           /\ executed' = [NoCall EXCEPT !.kind = "raised"]
                      ELSE /\ resolvers' = [resolvers EXCEPT
                                 ![t].params_list = Flatten(@, ret),
                                 ![t].i = @ + 1]
                           /\ executed' = NoCall
                /\ UNCHANGED fetch_calls
    /\ UNCHANGED <<wvars, mvars, svars, ovars, xvars, param_generators, tables_metadata,
                   param_cache>>

\* get_column_sample returns (lines 52-58): the sample is cached and one
\* of the cached values is the parameter; or it raises.
FetchReturn(t) ==
    /\ resolvers[t].pc = "fetching"
    /\ LET gen == param_generators[resolvers[t].i]
           key == CacheKey(gen)
       IN  \E res \in ColumnSampleResults(SampleSize(gen)) :
              IF res.kind = "raise"
              THEN /\ resolvers' = [resolvers EXCEPT ![t] = Abandon(@)]
                   /\ executed' = [NoCall EXCEPT !.kind = "raised"]
                   /\ UNCHANGED param_cache
              ELSE /\ param_cache' =
                         [param_cache EXCEPT ![key] = CacheEntry(res.vals)]
                   /\ \E ret \in ChoiceResults(param_cache'[key].sample) :
                         resolvers' = [resolvers EXCEPT
                             ![t].pc = "gen",
                             ![t].params_list = Flatten(@, ret),
                             ![t].i = @ + 1]
                   /\ executed' = NoCall
    /\ UNCHANGED <<wvars, mvars, svars, ovars, xvars, param_generators, tables_metadata,
                   fetch_calls>>

\* execute_query is called with tuple(params_list) (line 80); when it
\* returns, the metric with parameters=params_list is logged (91-100).
ExecuteQuery(t) ==
    /\ resolvers[t].pc = "gen"
    /\ resolvers[t].i > Len(param_generators)
    /\ \E raw \in ExecuteQueryResults :
          executed' = [kind |-> "called",
                       params |-> resolvers[t].params_list,
                       logged |-> raw # Raised]
    /\ resolvers' = [resolvers EXCEPT ![t] = Abandon(@)]
    /\ UNCHANGED <<wvars, mvars, svars, ovars, xvars, param_generators, tables_metadata,
                   param_cache, fetch_calls>>

\* Faulty variant: the cache of the run before is kept.
ClearedNothing(cache) == cache

\* self._param_cache.clear() (line 132).
Cleared(cache) ==
    [key \in DOMAIN cache |-> [cached |-> FALSE, sample |-> << >>]]

\* run_all_workloads up to its first await (lines 132-146), as parameter
\* resolution sees it: the cache is cleared and the tasks are created.  No
\* task exists before the call (resolvers is empty).
ClearAndSpawn ==
    /\ resolvers = << >>
    /\ param_cache' = Cleared(param_cache)
    /\ resolvers' = [t \in 1..MaxTasks |-> IdleResolver(0)]
    /\ executed' = NoCall
    /\ UNCHANGED <<wvars, mvars, svars, ovars, xvars, param_generators,
                   tables_metadata, fetch_calls>>

PNext ==
    \/ \E t \in DOMAIN resolvers : ResolveBegin(t)
    \/ \E t \in DOMAIN resolvers : ResolveParam(t)
    \/ \E t \in DOMAIN resolvers : FetchReturn(t)
    \/ \E t \in DOMAIN resolvers : ExecuteQuery(t)

\* ------------------------------------------------------------ MetricsCollector

\* The metric names a record or a filter carries: the sampler's metrics and
\* the 'wait_stats' the analyzer asks for.
DmvNames == MetricNames \union {"wait_stats"}

\* datetime values; isoformat() and fromisoformat() convert between a
\* datetime and its text.
Stamps == 1..MaxLines
IsoFormat(t) == [k |-> "iso", v |-> t]

Keys == {"metric_name", "timestamp", "data"}

\* One line of dbms_metrics.jsonl as json.loads sees it: text that is no
\* JSON, a JSON value that is no object (a list, a number, a string, null),
\* or an object with some of the three keys.
JsonObject(keys, metric_name, timestamp) ==
    [json |-> "object", keys |-> keys, metric_name |-> metric_name,
     timestamp |-> timestamp]
NotAnObject(json) ==
    [json |-> json, keys |-> {}, metric_name |-> NoneStr,
     timestamp |-> [k |-> "number", v |-> 0]]

\* DBMSMetricData and the line asdict / json.dump write for it: the default
\* serializer turns the datetime into its ISO text.
DBMSMetricData(metric_name, timestamp) ==
    [metric_name |-> metric_name, timestamp |-> timestamp]
DumpDbmsMetric(dbms_data) ==
    JsonObject(Keys, dbms_data.metric_name, IsoFormat(dbms_data.timestamp))

\* The lines a log is tried with: every record the sink writes, and, for one
\* metric, every line that has one fault: a key is missing, or the
\* timestamp is a string that is no ISO date ("text") or a number.
LogLines ==
    {DumpDbmsMetric(DBMSMetricData(n, t)) : n \in DmvNames, t \in Stamps}
    \union {NotAnObject("invalid"), NotAnObject("value")}
    \union {JsonObject(Keys \ {k}, "dmv", IsoFormat(1)) : k \in Keys}
    \union {JsonObject(Keys, "dmv", [k |-> kind, v |-> 0]) :
               kind \in {"text", "number"}}

RECURSIVE SeqsUpTo(_, _)
SeqsUpTo(S, n) ==
    IF n = 0 THEN {<< >>}
    ELSE LET shorter == SeqsUpTo(S, n - 1)
         IN  shorter \union
             {Append(sq, x) : sq \in {q \in shorter : Len(q) = n - 1}, x \in S}

\* A log file: absent until the first successful open(path, 'a').
NoFile == [exists |-> FALSE, lines |-> << >>]
File(lines) == [exists |-> TRUE, lines |-> lines]

\* open(file_path, 'a'), json.dump, write('\n') (lines 49-56): the line goes
\* to the end of the file; an IOError of open is logged and nothing is
\* written.
AppendTruncates(file, line, ok) ==
    IF ok THEN File(<<line>>) ELSE file
AppendToJsonlFile(file, line, ok) ==
    IF ok THEN File(Append(file.lines, line)) ELSE file

\* What the body of the inner try (lines 87-93) does with one line.
ParseLine(line, metric_name_filter) ==
    IF line.json = "invalid" THEN [k |-> "JSONDecodeError"]
    ELSE IF line.json = "value" THEN [k |-> "AttributeError"]
    ELSE LET name == IF "metric_name" \in line.keys
                     THEN line.metric_name ELSE NoneStr
         IN  IF ~(name = metric_name_filter \/ metric_name_filter = NoneStr)
             THEN [k |-> "other"]
             ELSE IF "metric_name" \notin line.keys THEN [k |-> "KeyError"]
             ELSE IF "timestamp" \notin line.keys THEN [k |-> "KeyError"]
             ELSE IF line.timestamp.k = "number" THEN [k |-> "TypeError"]
             ELSE IF line.timestamp.k = "text" THEN [k |-> "ValueError"]
             ELSE IF "data" \notin line.keys THEN [k |-> "KeyError"]
             ELSE [k |-> "record",
                   record |-> DBMSMetricData(line.metric_name,
                                             line.timestamp.v)]

\* The for loop over the file (lines 85-95): the inner except (line 94)
\* skips the line; an exception it does not name ends the loop in the
\* outer except (lines 98-99).
RECURSIVE ScanLines(_, _, _)
ScanLines(lines, metric_name_filter, sofar) ==
    IF lines = << >> THEN [records |-> sofar, error |-> FALSE]
    ELSE LET step == ParseLine(Head(lines), metric_name_filter)
         IN  IF step.k = "record"
             THEN ScanLines(Tail(lines), metric_name_filter,
                            Append(sofar, step.record))
             ELSE IF step.k \in {"other", "JSONDecodeError", "KeyError",
                                 "TypeError"}
             THEN ScanLines(Tail(lines), metric_name_filter, sofar)
             ELSE [records |-> sofar, error |-> TRUE]

\* get_collected_dbms_metrics (lines 81-100).
GetCollectedDbmsMetrics(file, metric_name_filter) ==
    IF ~file.exists THEN [records |-> << >>, error |-> FALSE]
    ELSE ScanLines(file.lines, metric_name_filter, << >>)

NoRead == [called |-> FALSE, filter |-> NoneStr, records |-> << >>,
           error |-> FALSE]
\* No _collect_one_dbms_metric is running: metric is the metric it
\* collects, rows the result rows it has still to log, and first the
\* length of the log when execute_query returned.
NoCollector == [pc |-> "none", metric |-> NoneStr, rows |-> 0, first |-> 0]

\* The logs of a new run directory, or a dbms log that is already there.
SInitWith(dbms_files) ==
    /\ query_log = NoFile
    /\ system_log = NoFile
    /\ recommendation_log = NoFile
    /\ dbms_log \in dbms_files
    /\ collected = NoRead
    /\ wall = 1
    /\ collector = NoCollector

\* log_query_execution (lines 58-61).
LogQueryExecution ==
    /\ Len(query_log.lines) < MaxLines
    /\ \E ok \in BOOLEAN :
          query_log' = AppendToJsonlFile(query_log, "query", ok)
    /\ collected' = NoRead
    /\ UNCHANGED <<wvars, mvars, pvars, ovars, xvars, system_log, dbms_log,
                   recommendation_log, wall, collector>>

\* log_system_metric (lines 63-66).
LogSystemMetric ==
    /\ Len(system_log.lines) < MaxLines
    /\ \E ok \in BOOLEAN :
          system_log' = AppendToJsonlFile(system_log, "system", ok)
    /\ collected' = NoRead
    /\ UNCHANGED <<wvars, mvars, pvars, ovars, xvars, query_log, dbms_log,
                   recommendation_log, wall, collector>>

\* log_dbms_metric (lines 68-71).
LogDbmsMetric ==
    /\ Len(dbms_log.lines) < MaxLines
    /\ \E n \in DmvNames, t \in Stamps, ok \in BOOLEAN :
          dbms_log' = AppendToJsonlFile(
                          dbms_log, DumpDbmsMetric(DBMSMetricData(n, t)), ok)
    /\ collected' = NoRead
    /\ UNCHANGED <<wvars, mvars, pvars, ovars, xvars, query_log, system_log,
                   recommendation_log, wall, collector>>

\* log_recommendation (lines 73-79): the same append, of a text line.
LogRecommendation ==
    /\ Len(recommendation_log.lines) < MaxLines
    /\ \E ok \in BOOLEAN :
          recommendation_log' =
              AppendToJsonlFile(recommendation_log, "recommendation", ok)
    /\ collected' = NoRead
    /\ UNCHANGED <<wvars, mvars, pvars, ovars, xvars, query_log, system_log, dbms_log,
                   wall, collector>>

\* A call of get_collected_dbms_metrics.
ReadBack ==
    /\ \E metric_name_filter \in DmvNames \union {NoneStr} :
          LET r == GetCollectedDbmsMetrics(dbms_log, metric_name_filter)
          IN  collected' = [called |-> TRUE, filter |-> metric_name_filter,
                            records |-> r.records, error |-> r.error]
    /\ UNCHANGED <<wvars, mvars, pvars, ovars, xvars, query_log, system_log, dbms_log,
                   recommendation_log, wall, collector>>

\* _collect_one_dbms_metric is awaited on a running event loop and calls
\* execute_query (lines 54-57).
CollectBegin ==
    /\ collector.pc \in {"none", "done"}
    /\ Len(dbms_log.lines) < MaxLines
    /\ \E m \in MetricNames :
          collector' = [NoCollector EXCEPT !.pc = "query", !.metric = m]
    /\ collected' = NoRead
    /\ UNCHANGED <<wvars, mvars, pvars, ovars, xvars, query_log, system_log, dbms_log,
                   recommendation_log, wall>>

\* execute_query returns the rows, returns None (line 67) or raises (line
\* 68): only rows lead to the for loop of line 59.
CollectQueryReturn ==
    /\ collector.pc = "query"
    /\ \E n \in 0..(MaxLines - Len(dbms_log.lines)),
          raw \in IF pool THEN {"list", "none"} ELSE {"raise"} :
          collector' =
              IF raw = "list" /\ n > 0
              THEN [collector EXCEPT !.pc = "rows", !.rows = n,
                                     !.first = Len(dbms_log.lines)]
              ELSE [collector EXCEPT !.pc = "done",
                                     !.first = Len(dbms_log.lines)]
    /\ collected' = NoRead
    /\ UNCHANGED <<wvars, mvars, pvars, ovars, xvars, query_log, system_log, dbms_log,
                   recommendation_log, wall>>

\* One turn of the for loop (lines 59-65): the record of the row is built
\* with timestamp=datetime.now() and handed to log_dbms_metric.
CollectRow ==
    /\ collector.pc = "rows"
    /\ \E ok \in BOOLEAN :
          dbms_log' = AppendToJsonlFile(
                          dbms_log,
                          DumpDbmsMetric(DBMSMetricData(collector.metric, wall)),
                          ok)
    /\ collector' = [collector EXCEPT
                        !.rows = @ - 1,
                        !.pc = IF collector.rows = 1 THEN "done" ELSE "rows"]
    /\ collected' = NoRead
    /\ UNCHANGED <<wvars, mvars, pvars, ovars, xvars, query_log, system_log,
                   recommendation_log, wall>>

\* The wall clock moves on while the coroutine is running: during the
\* query, and between two rows (each log_dbms_metric opens, writes and
\* closes the file).
CollectTick ==
    /\ collector.pc \in {"query", "rows"}
    /\ wall < MaxLines
    /\ wall' = wall + 1
    /\ collected' = NoRead
    /\ UNCHANGED <<wvars, mvars, pvars, ovars, xvars, query_log, system_log, dbms_log,
                   recommendation_log, collector>>

CNext ==
    \/ CollectBegin
    \/ CollectQueryReturn
    \/ CollectRow
    \/ CollectTick
    \/ ReadBack

SNext ==
    \/ LogQueryExecution
    \/ LogSystemMetric
    \/ LogDbmsMetric
    \/ LogRecommendation
    \/ ReadBack

\* ------------------------------------------------------------- run_simulation

\* The awaits of run_simulation in the order of the code: connect (line
\* 44), schema, metadata and data generation (47-61), start_monitoring
\* (66), run_all_workloads (70), stop_monitoring (74), analyze (79),
\* generate_recommendations (84) and, in the finally clause, disconnect
\* (99).
PhasesStopFirst ==
    <<"connect", "setup", "start_monitoring", "stop_monitoring",
      "run_all_workloads", "analyze", "generate_recommendations",
      "disconnect", "done">>
Phases ==
    <<"connect", "setup", "start_monitoring", "run_all_workloads",
      "stop_monitoring", "analyze", "generate_recommendations",
      "disconnect", "done">>
PhaseAfter(pc) == Phases[(CHOOSE i \in DOMAIN Phases : Phases[i] = pc) + 1]

\* The call run_simulation awaits has returned.
Returned(pc) ==
    CASE pc = "start_monitoring" -> calls.last \in {"start", "start_noop"}
      [] pc = "run_all_workloads" -> orch = "returned"
      [] pc = "stop_monitoring" ->
            caller = "idle" /\ calls.last \in {"stop", "stop_noop"}
      [] pc = "analyze" -> collected.called
      [] pc = "generate_recommendations" -> TRUE
      [] OTHER -> FALSE

\* await db_adapter.connect() (line 44): the pool is there when it returns;
\* when it raises, a pool whose SELECT 1 failed may be left behind, and the
\* handlers of lines 91-96 lead to the finally clause.
MainConnect ==
    /\ run_simulation = "connect"
    /\ \E ok \in BOOLEAN, kept \in BOOLEAN :
          /\ pool' = (ok \/ kept)
          /\ run_simulation' = IF ok THEN PhaseAfter("connect")
                               ELSE "disconnect"
    /\ emitted' = NoMetric
    /\ UNCHANGED <<mvars, pvars, svars, xvars, now, workloads_config,
                   global_duration, orch, stop_event, tasks, ghost>>

\* Schema creation, metadata refresh and data generation (lines 47-61)
\* return, or one of them raises.
MainSetup ==
    /\ run_simulation = "setup"
    /\ \E ok \in BOOLEAN :
          run_simulation' = IF ok THEN PhaseAfter("setup") ELSE "disconnect"
    /\ UNCHANGED <<wvars, mvars, pvars, svars, xvars>>

\* The workload phase raises before its first await: the constructor of
\* WorkloadExecutor, or run_all_workloads ahead of line 148 (range() of a
\* concurrency that is no int, the sum with a global duration that is no
\* number), or the task is cancelled there.  The handlers of lines 91-96,
\* if any applies, lead to the finally clause.
MainWorkloadRaises ==
    /\ run_simulation = "run_all_workloads"
    /\ orch = "idle"
    /\ run_simulation' = "disconnect"
    /\ UNCHANGED <<wvars, mvars, pvars, svars, xvars>>

\* The awaited call has returned and run_simulation goes on to the next.
MainReturn ==
    /\ Returned(run_simulation)
    /\ run_simulation' = PhaseAfter(run_simulation)
    /\ UNCHANGED <<wvars, mvars, pvars, svars, xvars>>

\* finally: await db_adapter.disconnect() (lines 97-101, adapters 114-119).
MainDisconnect ==
    /\ run_simulation = "disconnect"
    /\ pool' = FALSE
    /\ run_simulation' = "done"
    /\ emitted' = NoMetric
    /\ UNCHANGED <<mvars, pvars, svars, xvars, now, workloads_config,
                   global_duration, orch, stop_event, tasks, ghost>>

\* run_simulation makes each call where the code makes it; the sampling
\* threads, the workload tasks and both clocks run freely.
ONext ==
    \/ MainConnect
    \/ MainSetup
    \/ MainWorkloadRaises
    \/ MainReturn
    \/ MainDisconnect
    \/ run_simulation = "start_monitoring" /\ calls.n = 0 /\ StartMonitoring
    \/ run_simulation = "run_all_workloads" /\ RunAllWorkloads
    \/ run_simulation = "stop_monitoring" /\ calls.n = 1 /\ StopMonitoring
    \/ run_simulation \in {"analyze", "generate_recommendations"} /\ ReadBack
    \/ StopJoinReturn
    \/ \E th \in DOMAIN threads : ThreadPrime(th)
    \/ \E th \in DOMAIN threads : ThreadTest(th)
    \/ \E th \in DOMAIN threads : ThreadBody(th)
    \/ \E th \in DOMAIN threads : ThreadCheck(th)
    \/ \E th \in DOMAIN threads : ThreadDispatch(th)
    \/ \E th \in DOMAIN threads : ThreadWaitDone(th)
    \/ MTick
    \/ \E t \in DOMAIN tasks : TaskStart(t)
    \/ \E t \in DOMAIN tasks : TaskLoop(t)
    \/ \E t \in DOMAIN tasks : TaskQueryReturn(t)
    \/ \E t \in DOMAIN tasks : TaskWake(t)
    \/ OrchWaitDone
    \/ OrchGatherDone
    \/ Tick

\* ----------------------------------------------------------- specifications

\* run_simulation is not called.
OQuiet == run_simulation = "none"
XQuiet == selection = NoSelection /\ connection = NoConnection

\* The sink of a new run, untouched.
SQuiet == SInitWith({NoFile})

\* No query is being resolved, for the runs of the other parts.
PQuiet ==
    /\ PInitWith({<< >>}, 0)
    /\ \A tb \in Tables : ~tables_metadata[tb].present

\* The sampler before it is constructed, for the runs of the workload runner.
MQuiet ==
    /\ clock = InitialClock
    /\ monitoring_config =
          [os_metrics |-> {}, monitoring_interval_seconds |-> 1,
           frequency_seconds |-> [m \in MetricNames |-> 1]]
    /\ m_stop_event = FALSE
    /\ monitor_thread = 0
    /\ threads = << >>
    /\ dbms_metric_last_run = << >>
    /\ caller = "idle"
    /\ calls = [n |-> 0, last |-> "none", join_start |-> 0, took |-> 0,
                abandoned |-> FALSE]
    /\ sampled = NoSample

\* The workload runner before run_all_workloads, for the runs of the sampler.
WIdle ==
    /\ WInit
    /\ global_duration = 0
    /\ \A w \in DOMAIN workloads_config :
          workloads_config[w] = DisabledWorkload

WQuiet == WIdle /\ pool

\* run_all_workloads and its tasks.
Init == WInit /\ MQuiet /\ PQuiet /\ SQuiet /\ OQuiet /\ XQuiet
Spec == Init /\ [][WNext]_vars

\* The event loop runs whatever is ready and time passes.
FairSpec == Spec /\ WF_vars(WNext)

\* start_monitoring, stop_monitoring and the sampling threads.
MonInit == MInit /\ WQuiet /\ PQuiet /\ SQuiet /\ OQuiet /\ XQuiet
MonSpec == MonInit /\ [][MNext]_vars

\* The threads and the caller keep running and time passes.
FairMonSpec == MonSpec /\ WF_vars(MNext)

\* One task resolving the parameters of any query.
ResolveInit ==
    PInitWith(QueriesOver(Generators), 1)
    /\ WIdle /\ MQuiet /\ SQuiet /\ OQuiet /\ XQuiet
ResolveSpec == ResolveInit /\ [][PNext]_vars

\* Two concurrent tasks resolving a query of sample generators.
CacheInit ==
    /\ PInitWith(QueriesOver(SampleGenerators) \ {<< >>}, MaxTasks)
    /\ \A tb \in Tables : ~tables_metadata[tb].present
    /\ WIdle
    /\ MQuiet
    /\ SQuiet
    /\ OQuiet /\ XQuiet
CacheSpec == CacheInit /\ [][PNext]_vars

\* Before run_all_workloads is called: the cache is new, or holds for every
\* key what an earlier run of the same executor left there.
RunInit ==
    /\ param_generators \in QueriesOver(SampleGenerators) \ {<< >>}
    /\ tables_metadata \in [Tables -> MetadataEntries]
    /\ \A tb \in Tables : ~tables_metadata[tb].present
    /\ \/ param_cache =
             [key \in CacheKeys |-> [cached |-> FALSE, sample |-> << >>]]
       \/ \E n \in 0..MaxSample :
             param_cache = [key \in CacheKeys |->
                               CacheEntry([j \in 1..n |-> SampleValue(j)])]
    /\ resolvers = << >>
    /\ fetch_calls = [key \in CacheKeys |-> 0]
    /\ executed = NoCall
    /\ WIdle
    /\ MQuiet
    /\ SQuiet
    /\ OQuiet /\ XQuiet
RunNext == ClearAndSpawn \/ PNext
RunSpec == RunInit /\ [][RunNext]_vars

\* The sink over a database-metric log that is missing or holds any lines
\* already: appends and read-back.
SinkInit ==
    /\ SInitWith({NoFile}
                 \union {File(l) : l \in SeqsUpTo(LogLines, MaxLines - 1)})
    /\ WQuiet
    /\ MQuiet
    /\ PQuiet
    /\ OQuiet /\ XQuiet
SinkSpec == SinkInit /\ [][SNext]_vars

\* _collect_one_dbms_metric awaited on its own, over an adapter with or
\* without a pool and a new run directory.
CollectInit == SQuiet /\ WIdle /\ MQuiet /\ PQuiet /\ OQuiet /\ XQuiet
CollectSpec == CollectInit /\ [][CNext]_vars

\* _execute_single_query_instance from the return of execute_query on
\* (workload_executor.py lines 80-100), for every shape of result: the
\* duration is measured, the metric is built and log_query_execution
\* appends it to the query log.
ExecuteSingleQueryInstance ==
    /\ Len(query_log.lines) < MaxLines
    /\ \E raw \in ResultShapes, d \in 0..MaxQueryTicks, ok \in BOOLEAN :
          /\ now + d <= MaxQueryTicks * MaxLines
          /\ now' = now + d
          /\ emitted' = QueryExecutionMetric(1, raw, now, now + d)
          /\ query_log' = AppendToJsonlFile(query_log, "query", ok)
    /\ collected' = NoRead
    /\ UNCHANGED <<mvars, pvars, ovars, xvars, pool, workloads_config,
                   global_duration, orch, stop_event, tasks, ghost,
                   system_log, dbms_log, recommendation_log, wall, collector>>

\* A task created for a workload with any list of queries.
SelInit ==
    /\ selection \in {[NoSelection EXCEPT !.pc = "created", !.queries = qs] :
                         qs \in QueryLists}
    /\ connection = NoConnection
    /\ WQuiet /\ MQuiet /\ PQuiet /\ SQuiet /\ OQuiet
SelSpec == SelInit /\ [][SelNext]_vars

ConnectInit ==
    /\ connection \in ConnectCalls
    /\ selection = NoSelection
    /\ WIdle /\ ~pool
    /\ MQuiet /\ PQuiet /\ SQuiet /\ OQuiet
ConnectSpec == ConnectInit /\ [][ConnectNext]_vars

InstanceInit == WQuiet /\ MQuiet /\ PQuiet /\ SQuiet /\ OQuiet /\ XQuiet
InstanceSpec == InstanceInit /\ [][ExecuteSingleQueryInstance]_vars

\* One call of run_simulation, from its first await, with at most one
\* workload of one task and the slowest sampler configuration.
MainInit ==
    /\ run_simulation = "connect"
    /\ WInit
    /\ ~pool
    /\ workloads_config[2] = DisabledWorkload
    /\ workloads_config[1].weight = [int |-> TRUE, v |-> 1]
    /\ workloads_config[1].enabled =>
          workloads_config[1].duration_seconds = MaxDurationS
    /\ global_duration = 0
    /\ MInit
    /\ monitoring_config.os_metrics = {}
    /\ monitoring_config.monitoring_interval_seconds = MaxInterval
    /\ \A m \in MetricNames :
          monitoring_config.frequency_seconds[m] = MaxFrequency
    /\ PQuiet
    /\ SQuiet
    /\ XQuiet
MainSpec == MainInit /\ [][ONext]_vars

\* ------------------------------------------------------------------ claims

Elapsed(t) == tasks[t].end_time - tasks[t].task_start_time
\* The task entered its loop and has left it.
LoopDone(t) ==
    /\ tasks[t].pc = "done"
    /\ Cfg(t).weight.int /\ WeightedQueriesLen(Cfg(t)) > 0
\* The step starts an iteration of t: the loop test passed.
StartsIteration(t) ==
    tasks[t].pc = "loop" /\ tasks'[t].pc \in {"query", "sleep"}
\* The step ends an iteration of t: the task goes to its jitter sleep.
EndsIteration(t) ==
    tasks[t].pc \in {"loop", "query"} /\ tasks'[t].pc = "sleep"

\* C1: once the stop signal is set no task starts another iteration: a task
\* at its loop test leaves the loop, and the iteration counts stay as they
\* are.
C1_NoIterationAfterStop ==
    [][stop_event =>
         \A t \in DOMAIN tasks :
            /\ ~StartsIteration(t)
            /\ (tasks[t].pc = "loop" /\ tasks'[t] # tasks[t])
                  => tasks'[t].pc = "done"]_wvars

\* A task that was in an iteration with duration left when the stop came,
\* and has exited.
C1_Witness ==
    \E t \in DOMAIN tasks :
        /\ LoopDone(t) /\ tasks[t].exit_stop /\ tasks[t].ran
        /\ Elapsed(t) < DurationTicks(t)
        /\ tasks[t].end_time > ghost.stop_set_at

\* C2: the stop signal is set no earlier than global_duration after the
\* tasks were spawned and no later than global_duration + 5 s, and
\* run_all_workloads then returns.
C2_RunAllReturns ==
    /\ [](stop_event =>
            /\ ghost.stop_set_at - ghost.spawned_at
                  >= global_duration * TicksPerSecond
            /\ ghost.stop_set_at - ghost.spawned_at
                  <= (global_duration + GraceSeconds) * TicksPerSecond)
    /\ (orch = "waiting" ~> orch = "returned")

C2_Witness ==
    /\ orch = "returned" /\ ghost.spawned /\ global_duration > 0
    /\ \E t \in DOMAIN tasks : tasks[t].ran

\* C3: once run_all_workloads has returned after spawning, the stop signal
\* is set, every task has terminated and no step hands a record to the sink.
C3_AllDoneAtReturn ==
    (orch = "returned" /\ ghost.spawned) =>
        /\ stop_event
        /\ \A t \in DOMAIN tasks : Finished(t)
        /\ emitted = NoMetric

C3_Witness ==
    /\ orch = "returned" /\ ghost.spawned
    /\ \E t \in DOMAIN tasks : tasks[t].exit_stop /\ tasks[t].ran

C5_Original ==
    [][\A t \in DOMAIN tasks :
          EndsIteration(t) => emitted' # NoMetric]_wvars

\* C6: an exception caught in an iteration does not end the task: the task
\* sleeps and tests its loop again, and leaves it only because the stop
\* signal is set or its duration is over.
C6_ExceptionKeepsTask ==
    \A t \in DOMAIN tasks :
        tasks[t].caught > 0 =>
            /\ tasks[t].pc \in {"sleep", "loop", "done"}
            /\ tasks[t].pc = "done" =>
                  tasks[t].exit_stop \/ Elapsed(t) >= DurationTicks(t)

\* A task that caught an exception and went through a later iteration.
C6_Witness ==
    \E t \in DOMAIN tasks : tasks[t].caught >= 2 /\ tasks[t].pc = "done"

\* C7: with a task that ended with an exception, run_all_workloads does not
\* raise, the stop signal is set by run_all_workloads only, and every other
\* task leaves its loop only on the stop signal or at its own duration.
C7_FailureIsolated ==
    (\E f \in DOMAIN tasks : tasks[f].pc = "failed") =>
        /\ orch # "raised"
        /\ stop_event => (orch \in {"gathering", "returned"} /\
               ghost.stop_set_at >= ghost.spawned_at + global_duration * TicksPerSecond)
        /\ \A t \in DOMAIN tasks :
              LoopDone(t) => tasks[t].exit_stop \/ Elapsed(t) >= DurationTicks(t)

C7_Witness ==
    /\ orch = "returned"
    /\ \E f \in DOMAIN tasks : tasks[f].pc = "failed"
    /\ \E t \in DOMAIN tasks : LoopDone(t) /\ tasks[t].ran

\* C8: every record handed to the sink has duration_ms >= 0 and success
\* true exactly when execute_query returned something other than None.
C8_MetricConsistent ==
    emitted # NoMetric =>
        /\ emitted.duration_ms >= 0
        /\ emitted.success = (emitted.raw # None)

C8_Witness ==
    /\ emitted # NoMetric
    /\ emitted.raw = [kind |-> "list", n |-> 0]
    /\ emitted.duration_ms > 0

\* The sampler has a live loop behind its handle.
LoopRunning ==
    /\ monitor_thread # 0
    /\ threads[monitor_thread].pc \notin {"exited", "crashed"}

\* This step is a call of start_monitoring.
StartCall ==
    calls'.n = calls.n + 1 /\ calls'.last \in {"start", "start_noop"}

\* C9 as stated: whenever stop_monitoring has returned it took at most the
\* ten seconds of its join and the sampler holds no loop handle, and a
\* start_monitoring made while no loop runs leaves a live loop behind the
\* handle with the stop condition cleared.
C9_Original ==
    /\ [](calls.last \in {"stop", "stop_noop"} =>
            calls.took <= JoinTimeout /\ monitor_thread = 0)
    /\ [][(StartCall /\ ~LoopRunning) => LoopRunning' /\ ~m_stop_event']_vars

\* C9, amended: stop_monitoring never waits longer than ten seconds and
\* returns with no live loop behind the handle; the handle itself is dropped
\* when the loop was alive at the call (it has exited, or it is abandoned
\* after the ten seconds) and is kept when the thread had already died on
\* its own.  A start_monitoring made while no loop runs puts a new live
\* thread behind the handle and clears the stop condition.
C9_StopThenRestart ==
    /\ [](/\ caller = "joining" => clock - calls.join_start <= JoinTimeout
          /\ calls.last \in {"stop", "stop_noop"} =>
                calls.took <= JoinTimeout /\ ~LoopRunning
          /\ calls.last = "stop" =>
                /\ monitor_thread = 0
                /\ calls.abandoned => calls.took = JoinTimeout)
    /\ [][(StartCall /\ ~LoopRunning) =>
            /\ LoopRunning'
            /\ ~m_stop_event'
            /\ monitor_thread' = Len(threads) + 1
            /\ threads'[monitor_thread'].pc = "start"]_vars

\* A stop_monitoring gave up after ten seconds on a loop held mid-tick, and
\* the start_monitoring after it has a second loop running.
C9_Witness ==
    /\ calls.last = "start"
    /\ calls.n >= 3
    /\ calls.abandoned
    /\ calls.took = JoinTimeout
    /\ LoopRunning
    /\ threads[monitor_thread].pc = "wait"

\* C10: start_monitoring called while the loop behind the handle is alive
\* changes nothing: no thread is created, the handle, the stop condition and
\* the last_run table stay as they were.
C10_StartIsNoOpWhileRunning ==
    [][(StartCall /\ LoopRunning) =>
          UNCHANGED <<threads, monitor_thread, m_stop_event,
                      dbms_metric_last_run>>]_vars

\* start_monitoring has just returned from its guard while the loop had
\* already dispatched a metric.
C10_Witness ==
    /\ calls.last = "start_noop"
    /\ LoopRunning
    /\ Len(threads) = 1
    /\ \E m \in MetricNames : dbms_metric_last_run[m] > 0

\* The step is the comparison of one tick of th, or its dispatch.
CheckStep(th) == threads[th].pc = "check" /\ threads'[th].pc # "check"
DispatchStep(th) ==
    threads[th].pc = "dispatch" /\ threads'[th].pc # "dispatch"

\* C11 as stated: on a tick a metric is found due exactly when the tick's
\* time is at least its frequency after last_run; a dispatch sets last_run
\* to the tick's time and comes at least one frequency after the previous
\* dispatch of the metric in the run (last_run, which start_monitoring
\* resets and every dispatch sets).
C11_Original ==
    [][\A th \in DOMAIN threads : \A m \in MetricNames :
          /\ CheckStep(th) =>
                (m \in threads'[th].due <=>
                    threads[th].now - dbms_metric_last_run[m]
                        >= monitoring_config.frequency_seconds[m])
          /\ (DispatchStep(th) /\ m \in threads[th].due) =>
                /\ dbms_metric_last_run'[m] = threads[th].now
                /\ threads[th].now - dbms_metric_last_run[m]
                      >= monitoring_config.frequency_seconds[m]]_vars

\* C12: a dispatch never holds the loop: the step that dispatches the due
\* queries takes the thread straight to its base-interval wait, no thread
\* is ever waiting for a query, and a thread whose queries have not
\* completed still takes its host sample on the next tick.
C12_DispatchDoesNotWait ==
    /\ [](\A th \in DOMAIN threads :
            threads[th].pc \in {"start", "test", "body", "check", "dispatch",
                                "wait", "exited", "crashed"})
    /\ [][\A th \in DOMAIN threads :
            /\ DispatchStep(th) =>
                  /\ threads'[th].pc = "wait"
                  /\ threads'[th].wait_until =
                        clock + monitoring_config.monitoring_interval_seconds
                  /\ threads[th].due \subseteq Queued(threads'[th])
            /\ (/\ threads[th].pc = "body"
                /\ threads'[th].pc # "body"
                /\ Queued(threads[th]) # {}) =>
                  sampled'.kind \in {"metric", "failed", "skipped"}]_vars

\* A thread whose dispatched query never completed has taken a later host
\* sample.
C12_Witness ==
    \E th \in DOMAIN threads :
        /\ Queued(threads[th]) # {}
        /\ threads[th].pc = "check"
        /\ sampled.kind = "metric"

\* C13 as stated: every dispatched database-metric query is eventually
\* executed; in particular a coroutine queued on the event loop of a
\* sampling thread does not stay queued once that thread has ended.
C13_Original ==
    (\E th \in DOMAIN threads :
        threads[th].pc = "exited" /\ Queued(threads[th]) # {})
    ~> (\A th \in DOMAIN threads :
            threads[th].pc = "exited" => Queued(threads[th]) = {})

\* The step is the host sample of one tick of th.
BodyStep(th) == threads[th].pc = "body" /\ threads'[th].pc # "body"

\* C14: a failed host read is skipped and the tick goes on to the database
\* metrics; a sampling thread never dies inside its loop, and it leaves the
\* loop only at the loop test with the stop condition set.
C14_FailureSkipped ==
    [][\A th \in DOMAIN threads :
          /\ (BodyStep(th) /\ sampled'.kind = "failed") =>
                threads'[th].pc = "check"
          /\ (threads[th].pc # "crashed" /\ threads'[th].pc = "crashed") =>
                threads[th].pc = "start"
          /\ (threads[th].pc # "exited" /\ threads'[th].pc = "exited") =>
                m_stop_event /\ threads[th].pc = "test"]_vars

\* A host read has just failed on a tick after the first dispatch, and the
\* thread is on its way to the database metrics of that tick.
C14_Witness ==
    /\ sampled.kind = "failed"
    /\ \E th \in DOMAIN threads :
          /\ threads[th].pc = "check"
          /\ Queued(threads[th]) # {}
          /\ threads[th].now > dbms_metric_last_run["dmv"]

\* C15 as stated: every tick whose host read does not fail emits one
\* ResourceMetric, whatever the configured host metrics (the empty set
\* included), and the fields of metrics not configured are null.
C15_Original ==
    [][\A th \in DOMAIN threads :
          (BodyStep(th) /\ sampled'.kind # "failed") =>
              /\ sampled'.kind = "metric"
              /\ "cpu_percent" \notin monitoring_config.os_metrics =>
                    sampled'.cpu_percent = "null"
              /\ "memory_percent" \notin monitoring_config.os_metrics =>
                    sampled'.memory_percent = "null"]_vars

\* C16 as stated: within one run get_column_sample is called at most once
\* per cache key, whatever the number of tasks.
C16_Original == \A key \in CacheKeys : fetch_calls[key] <= 1

\* C16, amended: get_column_sample is called for a key only while the key
\* is not in the cache, and a cached key stays cached (the last fetch to
\* return sets its sample) and is never fetched again; with a connected
\* adapter a key is fetched at most once per task (tasks that miss while
\* the first fetch is in flight fetch too).
C16_NoFetchOnceCached ==
    /\ [](pool => \A key \in CacheKeys : fetch_calls[key] <= Len(resolvers))
    /\ [][\A key \in CacheKeys :
            /\ fetch_calls'[key] > fetch_calls[key] =>
                  ~param_cache[key].cached
            /\ param_cache[key].cached =>
                  /\ param_cache'[key].cached
                  /\ fetch_calls'[key] = fetch_calls[key]]_vars

\* Two tasks missed on the same key and both fetched; the key is cached now
\* and a task has been through all its iterations.
C16_Witness ==
    \E key \in CacheKeys :
        /\ fetch_calls[key] = 2
        /\ param_cache[key].cached
        /\ pool
        /\ \E t \in DOMAIN resolvers : resolvers[t].iters = MaxIterations

\* The step is a turn of t's loop over the generators, at a generator of
\* the given type.
TurnAt(t, type) ==
    /\ resolvers[t].pc = "gen"
    /\ resolvers[t].i <= Len(param_generators)
    /\ param_generators[resolvers[t].i].type = type
    /\ resolvers'[t] # resolvers[t]

\* The generator of that turn, and the last value of the list after it.
TurnGen(t) == param_generators[resolvers[t].i]
Appended(t) == resolvers'[t].params_list[Len(resolvers'[t].params_list)]

\* The table of the generator has both bounds in tables_metadata.
HasBounds(gen) ==
    /\ gen.table \in Tables
    /\ tables_metadata[gen.table].present
    /\ tables_metadata[gen.table].min_id # NoneInt
    /\ tables_metadata[gen.table].max_id # NoneInt

\* C17 as stated: a range generator whose table has min_id and max_id in
\* the metadata resolves to a value between them (to min_id when the two
\* are equal).
C17_Original ==
    [][\A t \in DOMAIN resolvers :
          (TurnAt(t, "random_int_from_column_range") /\ HasBounds(TurnGen(t)))
          => /\ resolvers'[t].i = resolvers[t].i + 1
             /\ Appended(t).k = "int"
             /\ tables_metadata[TurnGen(t).table].min_id <= Appended(t).v
             /\ Appended(t).v <= tables_metadata[TurnGen(t).table].max_id]_vars

\* C17, amended: a range generator that names a table and a column and
\* whose table has min_id and max_id in the metadata resolves to a value
\* between them (to min_id when the two are equal); one that names no
\* column resolves to 1 whatever the metadata.
C17_InRangeWhenNamed ==
    [][\A t \in DOMAIN resolvers :
          (TurnAt(t, "random_int_from_column_range") /\ HasBounds(TurnGen(t)))
          => /\ resolvers'[t].i = resolvers[t].i + 1
             /\ Appended(t).k = "int"
             /\ IF TurnGen(t).column # NoneStr
                THEN /\ tables_metadata[TurnGen(t).table].min_id
                            <= Appended(t).v
                     /\ Appended(t).v
                            <= tables_metadata[TurnGen(t).table].max_id
                ELSE Appended(t).v = 1]_vars

\* The bounds of the table are both MaxId and the generator gave MaxId.
C17_Witness ==
    \E t \in DOMAIN resolvers :
        /\ resolvers[t].pc = "gen"
        /\ resolvers[t].i = 2
        /\ param_generators[1] \in RangeGenerators
        /\ param_generators[1].table = "t"
        /\ param_generators[1].column = "id"
        /\ tables_metadata["t"].present
        /\ tables_metadata["t"].min_id = MaxId
        /\ tables_metadata["t"].max_id = MaxId
        /\ resolvers[t].params_list = <<IntValue(MaxId)>>

\* C18: a range generator whose table has no metadata entry or a None
\* bound resolves to 1: the turn appends the integer 1 and goes on to the
\* next generator, and no exception ends the call.
C18_FallbackOne ==
    [][\A t \in DOMAIN resolvers :
          (TurnAt(t, "random_int_from_column_range") /\ ~HasBounds(TurnGen(t)))
          => /\ resolvers'[t].pc = "gen"
             /\ resolvers'[t].i = resolvers[t].i + 1
             /\ resolvers'[t].params_list =
                   Append(resolvers[t].params_list, IntValue(1))
             /\ executed'.kind # "raised"]_vars

\* The first generator named a table without a metadata entry and gave 1.
C18_Witness ==
    \E t \in DOMAIN resolvers :
        /\ resolvers[t].pc = "gen"
        /\ resolvers[t].i = 2
        /\ param_generators[1] \in RangeGenerators
        /\ param_generators[1].table = "t"
        /\ param_generators[1].column = "id"
        /\ ~tables_metadata["t"].present
        /\ resolvers[t].params_list = <<IntValue(1)>>

\* The step is t's call of execute_query.
ExecuteStep(t) ==
    /\ resolvers[t].pc = "gen"
    /\ resolvers[t].i > Len(param_generators)
    /\ resolvers'[t] # resolvers[t]

\* How many values the generators before the i-th contribute when every
\* date_range gives two and every other generator one.
DateRangesBefore(i) ==
    Cardinality({j \in 1..(i - 1) : param_generators[j].type = "date_range"})
ParamsBefore(i) == (i - 1) + DateRangesBefore(i)

KindsOf(gen) ==
    IF gen.type = "random_int_from_column_range" THEN {"int"}
    ELSE IF gen.type = "random_from_column_sample"
         THEN {"sample", "default_sample_value", "default_if_empty"}
    ELSE {"none"}

\* C20: the list passed to execute_query holds the generators' values in
\* declaration order: start and then end for a date_range, one value for
\* every other generator, so its length is the number of generators plus
\* the number of date_range generators.
C20_FlattenedInOrder ==
    [][\A t \in DOMAIN resolvers :
          ExecuteStep(t) =>
            /\ Len(executed'.params) =
                  Len(param_generators)
                      + DateRangesBefore(Len(param_generators) + 1)
            /\ \A i \in DOMAIN param_generators :
                  LET gen == param_generators[i]
                      at == ParamsBefore(i)
                  IN  IF gen.type = "date_range"
                      THEN /\ executed'.params[at + 1] =
                                 DateValue(IF gen.start_days_ago = NoneInt
                                           THEN DefaultStartDays
                                           ELSE gen.start_days_ago)
                           /\ executed'.params[at + 2] =
                                 DateValue(IF gen.end_days_ago = NoneInt
                                           THEN DefaultEndDays
                                           ELSE gen.end_days_ago)
                      ELSE executed'.params[at + 1].k \in KindsOf(gen)]_vars

\* A query of a date range (7 and 1 days ago) followed by a range generator
\* was executed with three parameters: start, end, integer.
C20_Witness ==
    /\ executed.kind = "called"
    /\ Len(param_generators) = 2
    /\ param_generators[1].type = "date_range"
    /\ param_generators[1].start_days_ago = 7
    /\ param_generators[2].type = "random_int_from_column_range"
    /\ Len(executed.params) = 3
    /\ executed.params[1] = DateValue(7)
    /\ executed.params[2] = DateValue(1)
    /\ executed.params[3].k = "int"

\* A line that holds a record: a JSON object with the three keys whose
\* timestamp is an ISO date.
WellFormed(line) ==
    /\ line.json = "object"
    /\ line.keys = Keys
    /\ line.timestamp.k = "iso"

Matches(line, metric_name_filter) ==
    metric_name_filter = NoneStr \/ line.metric_name = metric_name_filter

\* The records of the well-formed lines that match, in file order.
RECURSIVE RecordsOf(_, _)
RecordsOf(lines, metric_name_filter) ==
    IF lines = << >> THEN << >>
    ELSE LET line == Head(lines)
             rest == RecordsOf(Tail(lines), metric_name_filter)
         IN  IF WellFormed(line) /\ Matches(line, metric_name_filter)
             THEN <<[metric_name |-> line.metric_name,
                     timestamp |-> line.timestamp.v]>> \o rest
             ELSE rest

\* C21 as stated: get_collected_dbms_metrics returns exactly the records of
\* the well-formed lines of the database-metric log whose metric_name
\* equals the filter (of every well-formed line when there is no filter),
\* in file order, and the empty list when the file is missing.
C21_Original ==
    collected.called =>
        collected.records =
            IF dbms_log.exists
            THEN RecordsOf(dbms_log.lines, collected.filter)
            ELSE << >>

\* The lines json.loads or the record constructor cannot take.
Unparsable(line) == ~WellFormed(line)

\* C22 as stated: a read of a log that holds an unparsable line does not
\* fail, and the record of every well-formed matching line, before or after
\* the unparsable one, is in the result.
C22_Original ==
    (collected.called
     /\ \E i \in DOMAIN dbms_log.lines : Unparsable(dbms_log.lines[i]))
    => /\ ~collected.error
       /\ \A i \in DOMAIN dbms_log.lines :
             (WellFormed(dbms_log.lines[i])
              /\ Matches(dbms_log.lines[i], collected.filter))
             => \E j \in DOMAIN collected.records :
                   /\ collected.records[j].metric_name =
                         dbms_log.lines[i].metric_name
                   /\ collected.records[j].timestamp =
                         dbms_log.lines[i].timestamp.v

Logs == <<query_log, system_log, dbms_log, recommendation_log>>

\* file_ is file with at most one line more at its end.
Extends(file, file_) ==
    /\ Len(file_.lines) <= Len(file.lines) + 1
    /\ SubSeq(file_.lines, 1, Len(file.lines)) = file.lines
    /\ file.exists => file_.exists

\* C23: the logs are append-only: a step of the sink leaves every line
\* that was written where it is, adds at most one line, to the end of one
\* log, and a read-back changes no log.
C23_AppendOnly ==
    [][/\ \A i \in DOMAIN Logs : Extends(Logs[i], Logs'[i])
       /\ Cardinality({i \in DOMAIN Logs : Logs'[i] # Logs[i]}) <= 1
       /\ collected'.called => Logs' = Logs]_vars

\* Every log has been appended to, the database-metric log twice, and the
\* log has been read back.
C23_Witness ==
    /\ Len(query_log.lines) = MaxLines
    /\ Len(system_log.lines) >= 1
    /\ Len(recommendation_log.lines) >= 1
    /\ Len(dbms_log.lines) = MaxLines
    /\ collected.called
    /\ Len(collected.records) = MaxLines

\* The step spawns the workload tasks, calls stop_monitoring, or is a
\* read-back of the analysis or the recommendation engine.
SpawnStep == tasks = << >> /\ tasks' # << >>
StopCallStep ==
    calls'.n = calls.n + 1 /\ calls'.last \in {"stop_joining", "stop_noop"}
ReadStep == collected'.called /\ collected' # collected

\* C24: run_simulation orders the phases: a sampling thread has been
\* started when the workload tasks are spawned, stop_monitoring is called
\* only when run_all_workloads has returned, and the sink is read back only
\* when stop_monitoring has returned.
C24_PhasesInOrder ==
    [][/\ SpawnStep => calls.n = 1 /\ calls.last = "start" /\ threads # << >>
       /\ StopCallStep => orch = "returned"
       /\ ReadStep =>
             /\ caller = "idle"
             /\ calls.last \in {"stop", "stop_noop"}
             /\ orch = "returned"]_vars

\* A run that went through every phase: the tasks were spawned, the join
\* of stop_monitoring returned, the sink was read and the pool is closed.
C24_Witness ==
    /\ run_simulation = "done"
    /\ tasks # << >>
    /\ calls.last = "stop"
    /\ collected.called
    /\ ~pool

\* The tasks of workload w.
TasksOf(w) == {t \in DOMAIN tasks : tasks[t].wl = w}

\* C25: once run_all_workloads has spawned, there are exactly
\* concurrency(w) tasks for every enabled workload w and none for a
\* disabled one, in all the sum of the concurrencies of the enabled
\* workloads; no task is added or dropped later, and before the spawn (or
\* when no workload is enabled) there is no task at all.
C25_TasksPerWorkload ==
    /\ ~ghost.spawned => tasks = << >>
    /\ ghost.spawned =>
          /\ \A w \in DOMAIN workloads_config :
                Cardinality(TasksOf(w)) =
                    IF workloads_config[w].enabled
                    THEN workloads_config[w].concurrency ELSE 0
          /\ Len(tasks) = SumConcurrency(workloads_config)
    /\ \A t \in DOMAIN tasks :
          /\ tasks[t].wl \in DOMAIN workloads_config
          /\ workloads_config[tasks[t].wl].enabled

\* The first workload is disabled and the second has run a query in each of
\* its two concurrent tasks.
C25_Witness ==
    /\ ~workloads_config[1].enabled
    /\ workloads_config[2].concurrency = MaxTasks
    /\ Len(tasks) = MaxTasks
    /\ \A t \in DOMAIN tasks : tasks[t].wl = 2 /\ tasks[t].ran
    /\ orch = "returned"

\* C26 as stated: execute_query never raises to its caller, whatever the
\* state of the adapter: the except clause around the call in the task
\* loop, the only place a task calls it from, has never caught anything.
C26_Original == \A t \in DOMAIN tasks : tasks[t].caught = 0

\* C27: last_run is advanced by the dispatch itself, and an outstanding
\* dispatch of a metric does not keep the metric from being dispatched
\* again: the comparison finds it due by the time alone, and the dispatch
\* queues one more query for every due metric, on top of those already
\* queued (the count stops at two).
C27_DispatchedAgainWhileOutstanding ==
    [][\A th \in DOMAIN threads :
          /\ CheckStep(th) =>
                \A m \in MetricNames :
                    (threads'[th].now - dbms_metric_last_run[m]
                        >= monitoring_config.frequency_seconds[m])
                    => m \in threads'[th].due
          /\ DispatchStep(th) =>
                \A m \in threads[th].due :
                    /\ dbms_metric_last_run'[m] = threads[th].now
                    /\ \/ threads'[th].pending[m] = threads[th].pending[m] + 1
                       \/ threads[th].pending[m] = 2]_vars

\* Two queries of the same metric are outstanding in one sampling thread.
C27_Witness ==
    \E th \in DOMAIN threads :
        /\ threads[th].pending["dmv"] = 2
        /\ threads[th].pc = "wait"
        /\ dbms_metric_last_run["dmv"] = threads[th].now

\* The lines the running (or last) _collect_one_dbms_metric has logged.
LoggedByCollector ==
    {i \in DOMAIN dbms_log.lines : i > collector.first}

\* C28 as stated: the records logged for one dispatched query all carry the
\* same timestamp, however many rows the query returned.
C28_Original ==
    collector.pc \in {"rows", "done"} =>
        \A i, j \in LoggedByCollector :
            dbms_log.lines[i].timestamp = dbms_log.lines[j].timestamp

\* C29: the row count of a record follows the shape of what execute_query
\* returned: the length of a list, the integer itself, and None for None,
\* in which case the record is a failure.
C29_RowCountByShape ==
    emitted # NoMetric =>
        /\ emitted.raw.kind = "list" =>
               emitted.rows_affected_or_fetched = emitted.raw.n
        /\ emitted.raw.kind = "int" =>
               emitted.rows_affected_or_fetched = emitted.raw.n
        /\ emitted.raw = None =>
               /\ emitted.rows_affected_or_fetched = -1
               /\ ~emitted.success

C29_Witness ==
    /\ emitted.raw = [kind |-> "int", n |-> MaxRows]
    /\ emitted.rows_affected_or_fetched = MaxRows
    /\ emitted.success
    /\ Len(query_log.lines) = MaxLines

\* The entry cached after a fetch that returned no values, and the value
\* resolved from it.
FallbackEntry == CacheEntry(<< >>)
FallbackValue == StrValue("default_if_empty")

\* The step is a turn of t's loop at a sample generator whose key holds
\* the fallback entry.
TurnAtFallback(t) ==
    /\ TurnAt(t, "random_from_column_sample")
    /\ UsesCache(TurnGen(t))
    /\ param_cache[CacheKey(TurnGen(t))] = FallbackEntry

\* C30 as stated: once the fallback list is cached under a key it is what
\* every later resolve of the key finds.
C30_Original ==
    [][\A key \in CacheKeys :
          param_cache[key] = FallbackEntry =>
              param_cache'[key] = FallbackEntry]_vars

\* C30, amended: every list stored in the cache is non-empty (an empty
\* fetch is stored as the one-element fallback list), and a resolve that
\* finds the fallback list under its key returns the fallback element
\* without fetching; the entry itself can still be replaced by the result
\* of a fetch that a concurrent task started before it was cached.
C30_FallbackCached ==
    /\ [](\A key \in CacheKeys :
            param_cache[key].cached => param_cache[key].sample # << >>)
    /\ [][\A t \in DOMAIN resolvers :
            TurnAtFallback(t) =>
                /\ resolvers'[t].pc = "gen"
                /\ Appended(t) = FallbackValue
                /\ fetch_calls' = fetch_calls]_vars

\* A task fetched once for a key, got nothing, and resolved the key twice:
\* from the fetch and then from the cache.
C30_Witness ==
    \E key \in CacheKeys, t \in DOMAIN resolvers :
        /\ param_cache[key] = FallbackEntry
        /\ fetch_calls[key] = 1
        /\ resolvers[t].params_list = <<FallbackValue, FallbackValue>>

\* The step is the start of run_all_workloads.
RunStarts == resolvers = << >> /\ resolvers' # << >>

\* A task is awaiting get_column_sample for the key.
FetchInFlight(key) ==
    \E t \in DOMAIN resolvers :
        /\ resolvers[t].pc = "fetching"
        /\ CacheKey(param_generators[resolvers[t].i]) = key

\* C31 as stated: after the clear at the start of run_all_workloads a
\* populated entry keeps its list.
C31_Original ==
    [][\A key \in CacheKeys :
          param_cache[key].cached /\ ~RunStarts =>
              param_cache'[key] = param_cache[key]]_vars

\* C31, amended: the cache is emptied by the start of run_all_workloads and
\* by no other step; afterwards a populated key stays populated, and its
\* list changes only when a fetch of that key that was in flight returns.
C31_ClearedAtStartOnly ==
    [][/\ RunStarts => \A key \in CacheKeys : ~param_cache'[key].cached
       /\ \A key \in CacheKeys :
             param_cache[key].cached /\ ~RunStarts =>
                 /\ param_cache'[key].cached
                 /\ param_cache'[key] # param_cache[key] =>
                        FetchInFlight(key)]_vars

\* The cache left by an earlier run was cleared, a key was populated anew
\* by the fetch of one task, and the other task is still fetching it.
C31_Witness ==
    \E key \in CacheKeys :
        /\ param_cache[key] = FallbackEntry
        /\ fetch_calls[key] = 2
        /\ FetchInFlight(key)

\* The step is the finally clause of run_all_workloads setting the signal.
SignalsStop == orch = "waiting" /\ orch' = "gathering"

\* C32: the stop signal is unset when the tasks are spawned and while
\* run_all_workloads waits; it becomes set in the finally clause of
\* run_all_workloads and in no other step (no step of a task sets it), and
\* once set it stays set.
C32_StopOneWay ==
    /\ [](orch \in {"idle", "waiting"} => ~stop_event)
    /\ [][/\ SignalsStop => stop_event'
          /\ (~stop_event /\ stop_event') => SignalsStop
          /\ stop_event => stop_event']_vars

\* The signal is set while a task is still inside an iteration.
C32_Witness ==
    /\ stop_event
    /\ orch = "gathering"
    /\ \E t \in DOMAIN tasks : tasks[t].pc \in {"query", "sleep"}

\* How often q is in the pool, and the sum of the weights.
RECURSIVE Occurrences(_, _)
Occurrences(weighted, q) ==
    IF weighted = << >> THEN 0
    ELSE (IF Head(weighted) = q THEN 1 ELSE 0)
         + Occurrences(Tail(weighted), q)
RECURSIVE SumWeights(_)
SumWeights(queries) ==
    IF queries = << >> THEN 0 ELSE Head(queries).v + SumWeights(Tail(queries))
PositiveWeight(weight) == weight.int /\ weight.v > 0

\* C33 as stated: a task past the building of its pool has either no query
\* of positive weight, and then it has returned without a pick, or a pool
\* that holds each query weight times, has the size of the sum of the
\* weights and contains the query picked.
C33_Original ==
    selection.pc \in {"loop", "done", "failed"} =>
        IF \A q \in DOMAIN selection.queries :
              ~PositiveWeight(selection.queries[q])
        THEN selection.pc = "done" /\ selection.picks = 0
        ELSE /\ selection.pc # "failed"
             /\ \A q \in DOMAIN selection.queries :
                   Occurrences(selection.weighted_queries, q)
                       = selection.queries[q].v
             /\ Len(selection.weighted_queries)
                   = SumWeights(selection.queries)
             /\ selection.picks > 0 =>
                   Occurrences(selection.weighted_queries,
                               selection.query_to_run) > 0

\* The sampling threads that are inside a tick of their loop or in the wait
\* between two ticks.
Ticking ==
    {th \in DOMAIN threads :
        threads[th].pc \in {"body", "check", "dispatch", "wait"}}

\* C34 as stated: at no time are two sampling loops executing ticks.
C34_Original == Cardinality(Ticking) <= 1

\* The last call of the caller was a stop_monitoring and it has returned.
Stopped == caller = "idle" /\ calls.last \in {"stop", "stop_noop"}

\* C35 as stated: between the return of stop_monitoring and the next
\* start_monitoring no step appends a host sample and no step dispatches a
\* database-metric query.
C35_Original ==
    [][Stopped =>
          /\ sampled'.kind # "metric"
          /\ \A th \in DOMAIN threads :
                threads'[th].pending = threads[th].pending]_vars

\* C36 as stated: when run_simulation is at the disconnect with a sampling
\* thread started, stop_monitoring has been called and has returned, and
\* no sampling thread is alive once the pool is closed.
C36_Original ==
    /\ (run_simulation \in {"disconnect", "done"} /\ threads # << >>) =>
          Stopped
    /\ run_simulation = "done" => \A th \in DOMAIN threads : ~Alive(th)

\* Some workload is enabled.
SomeEnabled == \E w \in DOMAIN workloads_config : workloads_config[w].enabled

\* C37: when run_all_workloads has returned, it returned in the step of
\* the call, before any time passed, exactly when no workload is enabled;
\* with an enabled workload it returned no earlier than global_duration
\* after the spawn, whenever the tasks finished.
C37_EarlyOnlyWhenNoneEnabled ==
    orch = "returned" =>
        /\ ghost.spawned <=> SomeEnabled
        /\ ~SomeEnabled => now = 0
        /\ SomeEnabled =>
              ghost.returned_at - ghost.spawned_at
                  >= global_duration * TicksPerSecond

\* Every task had finished, one of them after running queries, before the
\* global duration was over, and run_all_workloads returned only then.
C37_Witness ==
    /\ orch = "returned"
    /\ global_duration > 0
    /\ tasks # << >>
    /\ \A t \in DOMAIN tasks :
          tasks[t].end_time < ghost.spawned_at + global_duration * TicksPerSecond
    /\ \E t \in DOMAIN tasks : tasks[t].ran /\ ~tasks[t].exit_stop

C39_BoundedRetries ==
    /\ [](/\ connection.attempts <= connection.retries
          /\ connection.waited = connection.sleeps * connection.delay
          /\ connection.pc = "attempt" =>
                connection.sleeps = connection.attempts
          /\ connection.pc = "sleep" =>
                /\ connection.sleeps = connection.attempts - 1
                /\ connection.attempts < connection.retries
          /\ (connection.pc = "returned" /\ connection.attempts > 0) =>
                /\ connection.ok
                /\ connection.sleeps = connection.attempts - 1
          /\ connection.pc = "raised" =>
                /\ ~connection.ok
                /\ connection.attempts = connection.retries
                /\ connection.sleeps = connection.retries - 1)
    /\ [][/\ (connection'.attempts > connection.attempts /\ connection'.ok)
                => connection'.pc = "returned"
          /\ connection.pc \in {"returned", "raised", "closed"} =>
                /\ connection'.attempts = connection.attempts
                /\ connection'.sleeps = connection.sleeps]_vars

\* connect raised after the last of several attempts, having slept between
\* them and not after the last.
C39_Witness ==
    /\ connection.pc = "raised"
    /\ connection.attempts = MaxRetries
    /\ connection.waited = (MaxRetries - 1) * MaxDelay

\* C40 as stated, for a call that asks for at least one attempt: connect
\* leaves a pool behind exactly when it returns normally, never when it
\* raises, and no pool a failed attempt created is replaced unclosed.
C40_Original ==
    connection.retries > 0 =>
        /\ connection.pc = "raised" => ~pool
        /\ connection.pc = "returned" => pool
        /\ connection.leaked = 0

====
